---- MODULE Spec2Model ----
(***************************************************************************)
(* Model of the HKEX settlement pipeline (app/services/settlement_parser.py *)
(* with its cache, row-store and time-series collaborators).               *)
(*                                                                         *)
(* Text is modelled as a sequence of one-character strings, so that        *)
(* splitlines(), strip(), split(), startswith(), float(), int() and the    *)
(* JSON round trip of the cache are computed, not assumed.                 *)
(***************************************************************************)
EXTENDS Integers, Sequences, FiniteSets, TLC

(***************************************************************************)
(* Bounds of the model.                                                    *)
(***************************************************************************)
\* largest number of data lines that follow the header in a document
MaxRows == 2
\* number of calls of the service (datetime.now() ticks) in one behaviour
MaxClock == 2
\* the same while _parse_file is replaced by a canned list
MaxPatchedCalls == 1
\* number of background tasks that run download_and_parse concurrently
MaxTasks == 2
\* the number of commands a behaviour of the command line runs
MaxCliCalls == 1

(***************************************************************************)
(* A local variable of the code: Value({ e(x) : x \in {v} }) is e with x   *)
(* naming the value v, which is computed once, at the assignment.          *)
(***************************************************************************)
Value(S) == CHOOSE x \in S : TRUE

(***************************************************************************)
(* Text helpers: Python str operations used by the parser.                 *)
(***************************************************************************)
NL == "\n"
SP == " "
Whitespace == {" ", "\t"}
Digits == {"0", "1", "2", "3", "4", "5", "6", "7", "8", "9"}

DigitVal(c) ==
    CASE c = "0" -> 0 [] c = "1" -> 1 [] c = "2" -> 2 [] c = "3" -> 3
      [] c = "4" -> 4 [] c = "5" -> 5 [] c = "6" -> 6 [] c = "7" -> 7
      [] c = "8" -> 8 [] c = "9" -> 9

\* index of the first element of s at or after i that satisfies the
\* membership test, 0 when there is none
RECURSIVE FirstIn(_, _, _)
FirstIn(s, i, chars) ==
    IF i > Len(s) THEN 0
    ELSE IF s[i] \in chars THEN i
    ELSE FirstIn(s, i + 1, chars)

RECURSIVE FirstNotIn(_, _, _)
FirstNotIn(s, i, chars) ==
    IF i > Len(s) THEN 0
    ELSE IF s[i] \notin chars THEN i
    ELSE FirstNotIn(s, i + 1, chars)

RECURSIVE LastNotIn(_, _, _)
LastNotIn(s, i, chars) ==
    IF i < 1 THEN 0
    ELSE IF s[i] \notin chars THEN i
    ELSE LastNotIn(s, i - 1, chars)

\* str.splitlines(): split on line ends, no trailing empty line
RECURSIVE splitlines(_)
splitlines(s) ==
    IF s = <<>> THEN <<>>
    ELSE LET i == FirstIn(s, 1, {NL})
         IN  IF i = 0 THEN <<s>>
             ELSE <<SubSeq(s, 1, i - 1)>> \o splitlines(SubSeq(s, i + 1, Len(s)))

\* str.strip(): drop leading and trailing whitespace
strip(s) ==
    LET a == FirstNotIn(s, 1, Whitespace)
        b == LastNotIn(s, Len(s), Whitespace)
    IN  IF a = 0 THEN <<>> ELSE SubSeq(s, a, b)

\* str.split() without argument: the maximal runs of non-whitespace
RECURSIVE split(_)
split(s) ==
    LET a == FirstNotIn(s, 1, Whitespace)
    IN  IF a = 0 THEN <<>>
        ELSE LET e == FirstIn(s, a, Whitespace)
             IN  IF e = 0 THEN <<SubSeq(s, a, Len(s))>>
                 ELSE <<SubSeq(s, a, e - 1)>> \o split(SubSeq(s, e, Len(s)))

\* str.startswith(prefix)
startswith(s, prefix) ==
    /\ Len(s) >= Len(prefix)
    /\ SubSeq(s, 1, Len(prefix)) = prefix

\* sep.join(parts)
RECURSIVE join(_, _)
join(sep, parts) ==
    IF parts = <<>> THEN <<>>
    ELSE IF Len(parts) = 1 THEN parts[1]
    ELSE parts[1] \o sep \o join(sep, Tail(parts))

(***************************************************************************)
(* float() and int() on the tokens of a settlement file.  A float is kept  *)
(* as an integer count of 1/FloatScale units (four decimal places, the     *)
(* precision of the published settlement prices).                          *)
(***************************************************************************)
FracDigits == 4

AllDigits(s) == \A i \in 1..Len(s) : s[i] \in Digits

RECURSIVE DigitsValue(_)
DigitsValue(s) ==
    IF s = <<>> THEN 0
    ELSE 10 * DigitsValue(SubSeq(s, 1, Len(s) - 1)) + DigitVal(s[Len(s)])

RECURSIVE Pow10(_)
Pow10(n) == IF n = 0 THEN 1 ELSE 10 * Pow10(n - 1)

FloatScale == Pow10(FracDigits)

\* int(token): [ok, val]; ok = FALSE stands for ValueError
py_int(tok) ==
    IF tok # <<>> /\ AllDigits(tok)
    THEN [ok |-> TRUE, val |-> DigitsValue(tok)]
    ELSE [ok |-> FALSE, val |-> 0]

\* float(token): [ok, val]; ok = FALSE stands for ValueError
py_float(tok) ==
    LET dot == FirstIn(tok, 1, {"."})
        ip  == IF dot = 0 THEN tok ELSE SubSeq(tok, 1, dot - 1)
        fp  == IF dot = 0 THEN <<>> ELSE SubSeq(tok, dot + 1, Len(tok))
    IN  IF /\ AllDigits(ip) /\ AllDigits(fp)
           /\ Len(ip) + Len(fp) > 0
           /\ Len(fp) <= FracDigits
        THEN [ok |-> TRUE,
              val |-> DigitsValue(ip) * FloatScale
                      + DigitsValue(fp) * Pow10(FracDigits - Len(fp))]
        ELSE [ok |-> FALSE, val |-> 0]

(***************************************************************************)
(* Text of the settlement files.                                           *)
(***************************************************************************)
\* the column names that _parse_file looks up (settlement_parser.py:104-110)
S_Series == <<"S", "e", "r", "i", "e", "s">>
S_Expiry == <<"E", "x", "p", "i", "r", "y">>
S_Strike == <<"S", "t", "r", "i", "k", "e">>
S_CallPut == <<"C", "a", "l", "l", "/", "P", "u", "t">>
S_Settlement == <<"S", "e", "t", "t", "l", "e", "m", "e", "n", "t">>
S_Volume == <<"V", "o", "l", "u", "m", "e">>
S_Open_Interest == <<"O", "p", "e", "n", " ", "I", "n", "t", "e", "r", "e", "s", "t">>
\* the last column as the sample data file spells it
S_OpenInterest == <<"O", "p", "e", "n", "I", "n", "t", "e", "r", "e", "s", "t">>

\* tokens of the data lines and of the leading free text
T_HTI2308 == <<"H", "T", "I", "2", "3", "0", "8">>
T_HSI2308 == <<"H", "S", "I", "2", "3", "0", "8">>
T_Expiry == <<"2", "0", "2", "3", "-", "0", "8", "-", "2", "5">>
T_18000 == <<"1", "8", "0", "0", "0">>
T_18500 == <<"1", "8", "5", "0", "0">>
T_Call == <<"C", "a", "l", "l">>
T_Put == <<"P", "u", "t">>
T_Price == <<"0", ".", "1", "2", "3", "4">>
T_100 == <<"1", "0", "0">>
T_50 == <<"5", "0">>
T_invalid == <<"i", "n", "v", "a", "l", "i", "d">>
T_Header == <<"H", "e", "a", "d", "e", "r">>
T_Line == <<"L", "i", "n", "e">>

\* "Series Expiry Strike Call/Put Settlement Volume Open Interest"
HeaderText ==
    join(<<SP>>, <<S_Series, S_Expiry, S_Strike, S_CallPut, S_Settlement,
                   S_Volume, S_Open_Interest>>)
\* the same header behind leading blanks
HeaderIndented == <<SP, SP>> \o HeaderText
\* "Series Expiry Strike Call/Put Settlement Volume OpenInterest"
HeaderCompact ==
    join(<<SP>>, <<S_Series, S_Expiry, S_Strike, S_CallPut, S_Settlement,
                   S_Volume, S_OpenInterest>>)

\* "HTI2308 2023-08-25 18000 Call 0.1234 100 50"
RowTokens1 == <<T_HTI2308, T_Expiry, T_18000, T_Call, T_Price, T_100, T_50>>
\* "HSI2308 2023-08-25 18500 Put 0.1234 100 50"
RowTokens2 == <<T_HSI2308, T_Expiry, T_18500, T_Put, T_Price, T_100, T_50>>
\* "HTI2308 2023-08-25 invalid Call 0.1234 100 50"
RowBadStrike == <<T_HTI2308, T_Expiry, T_invalid, T_Call, T_Price, T_100, T_50>>
\* "HTI2308 2023-08-25 18000 Call 0.1234 0.1234 50": volume is no integer
RowBadVolume == <<T_HTI2308, T_Expiry, T_18000, T_Call, T_Price, T_Price, T_50>>
\* six tokens, seven tokens plus one, and two tokens
RowShort == SubSeq(RowTokens1, 1, 6)
RowLong == RowTokens1 \o <<T_50>>
RowTwo == SubSeq(RowTokens1, 1, 2)

DataLines ==
    { join(<<SP>>, r) : r \in {RowTokens1, RowTokens2, RowBadStrike,
                               RowBadVolume, RowShort, RowLong, RowTwo} }
    \cup { <<SP, SP>> }

HeaderLines == {HeaderText, HeaderIndented, HeaderCompact}

\* "Header Line"
Preamble == join(<<SP>>, <<T_Header, T_Line>>)

SeqsUpTo(S, n) == UNION { [1..k -> S] : k \in 0..n }

\* the documents: optional free text, optional header, up to MaxRows lines
Docs ==
    { join(<<NL>>, pre \o hdr \o rows) :
        pre \in {<<>>, <<Preamble>>},
        hdr \in {<<>>} \cup { <<h>> : h \in HeaderLines },
        rows \in SeqsUpTo(DataLines, MaxRows) }

(***************************************************************************)
(* pandas: DataFrame(data_rows, columns=columns) and row[name].            *)
(***************************************************************************)
\* the None with which pandas fills the cells of a short row; a sequence
\* that no text equals, since text is made of one-character strings
PyNone == <<"None">>

\* the length of the longest row
MaxLen(rows) ==
    IF rows = <<>> THEN 0
    ELSE CHOOSE n \in { Len(rows[i]) : i \in 1..Len(rows) } :
            \A i \in 1..Len(rows) : Len(rows[i]) <= n

\* DataFrame(data_rows, columns=columns): rows are padded with None to the
\* longest row, and a width other than len(columns) raises ValueError
DataFrame(data_rows, columns) ==
    LET frame(width) ==
            IF data_rows = <<>> THEN [exc |-> "", rows |-> <<>>]
            ELSE IF width # Len(columns) THEN [exc |-> "ValueError", rows |-> <<>>]
            ELSE [exc |-> "",
                  rows |-> [i \in 1..Len(data_rows) |->
                              [j \in 1..width |->
                                 IF j <= Len(data_rows[i]) THEN data_rows[i][j]
                                 ELSE PyNone]]]
    IN  Value({ frame(width) : width \in {MaxLen(data_rows)} })

RECURSIVE IndexOf(_, _, _)
IndexOf(seq, i, x) ==
    IF i > Len(seq) THEN 0
    ELSE IF seq[i] = x THEN i
    ELSE IndexOf(seq, i + 1, x)

\* row[name]: KeyError when no column has that name
RowGet(columns, row, name) ==
    LET at(i) ==
            IF i = 0 THEN [exc |-> "KeyError", val |-> PyNone]
            ELSE [exc |-> "", val |-> row[i]]
    IN  Value({ at(i) : i \in {IndexOf(columns, 1, name)} })

\* row[name] kept as it is
StrField(columns, row, name) == RowGet(columns, row, name)

\* float(row[name]): TypeError on None, ValueError on a non-numeric token
FloatField(columns, row, name) ==
    LET converted(x) ==
            IF ~x.ok THEN [exc |-> "ValueError", val |-> 0]
            ELSE [exc |-> "", val |-> x.val]
        got(g) ==
            IF g.exc # "" THEN [exc |-> g.exc, val |-> 0]
            ELSE IF g.val = PyNone THEN [exc |-> "TypeError", val |-> 0]
            ELSE Value({ converted(x) : x \in {py_float(g.val)} })
    IN  Value({ got(g) : g \in {RowGet(columns, row, name)} })

\* int(row[name]): TypeError on None, ValueError on a non-integer token
IntField(columns, row, name) ==
    LET converted(x) ==
            IF ~x.ok THEN [exc |-> "ValueError", val |-> 0]
            ELSE [exc |-> "", val |-> x.val]
        got(g) ==
            IF g.exc # "" THEN [exc |-> g.exc, val |-> 0]
            ELSE IF g.val = PyNone THEN [exc |-> "TypeError", val |-> 0]
            ELSE Value({ converted(x) : x \in {py_int(g.val)} })
    IN  Value({ got(g) : g \in {RowGet(columns, row, name)} })

\* the dict display of one record: the seven entries are evaluated in order
\* and the first exception ends the evaluation
MakeRecord(columns, row) ==
    LET display(f, bad) ==
            IF bad # {}
            THEN [exc |-> f[CHOOSE i \in bad : \A j \in bad : i <= j].exc]
            ELSE [exc |-> "",
                  record |-> [series |-> f[1].val, expiry |-> f[2].val,
                              strike |-> f[3].val, call_put |-> f[4].val,
                              settlement_price |-> f[5].val, volume |-> f[6].val,
                              open_interest |-> f[7].val]]
        entries(f) == Value({ display(f, bad) : bad \in {{ i \in 1..7 : f[i].exc # "" }} })
    IN  Value({ entries(f) :
                  f \in {<<StrField(columns, row, S_Series),
                           StrField(columns, row, S_Expiry),
                           FloatField(columns, row, S_Strike),
                           StrField(columns, row, S_CallPut),
                           FloatField(columns, row, S_Settlement),
                           IntField(columns, row, S_Volume),
                           IntField(columns, row, S_Open_Interest)>>} })

(***************************************************************************)
(* SettlementParser._parse_file                                            *)
(***************************************************************************)
\* the header search of _parse_file: index of the first line whose stripped
\* text starts with "Series", 0 for None
RECURSIVE find_header(_, _)
find_header(lines, i) ==
    IF i > Len(lines) THEN 0
    ELSE IF startswith(strip(lines[i]), S_Series) THEN i
    ELSE find_header(lines, i + 1)

\* the token lists of the non-blank lines after the header
RECURSIVE data_rows_of(_)
data_rows_of(lines) ==
    IF lines = <<>> THEN <<>>
    ELSE IF strip(Head(lines)) # <<>>
         THEN <<split(Head(lines))>> \o data_rows_of(Tail(lines))
         ELSE data_rows_of(Tail(lines))

\* the exceptions of a row that the inner handler turns into a skipped row
RowSkipped(exc) == exc \in {"ValueError", "KeyError"}

\* the loop over df.iterrows(): a skipped row is left out, any other
\* exception leaves the loop
RECURSIVE convert_rows(_, _)
convert_rows(columns, rows) ==
    LET append(m, rest) ==
            IF rest.exc # "" THEN rest
            ELSE IF m.exc # "" THEN rest
            ELSE [exc |-> "", records |-> <<m.record>> \o rest.records]
        row(m) ==
            IF m.exc # "" /\ ~RowSkipped(m.exc)
            THEN [exc |-> m.exc, records |-> <<>>]
            ELSE Value({ append(m, rest) : rest \in {convert_rows(columns, Tail(rows))} })
    IN  IF rows = <<>> THEN [exc |-> "", records |-> <<>>]
        ELSE Value({ row(m) : m \in {MakeRecord(columns, Head(rows))} })

\* the outer handler of _parse_file (lines 119-121): the exception is
\* logged and the empty list is returned
ParseFailed(exc) ==
    [raised |-> FALSE, records |-> <<>>, log |-> "Failed to parse file"]

\* _parse_file(filepath) on the file `file`; read_ok = FALSE is an open() or
\* read() that raises.  `log` is the last line the call logs.
parse_file(file, read_ok) ==
    IF ~read_ok \/ ~file.exists THEN ParseFailed("OSError")
    ELSE LET converted(c) ==
                 IF c.exc # "" THEN ParseFailed(c.exc)
                 ELSE [raised |-> FALSE, records |-> c.records,
                       log |-> "Parsed records from file"]
             framed(columns, df) ==
                 IF df.exc # "" THEN ParseFailed(df.exc)
                 ELSE Value({ converted(c) : c \in {convert_rows(columns, df.rows)} })
             tokens(columns, data_rows) ==
                 Value({ framed(columns, df) : df \in {DataFrame(data_rows, columns)} })
             searched(lines, header_idx) ==
                 IF header_idx = 0
                 THEN [raised |-> FALSE, records |-> <<>>,
                       log |-> "Could not find header line in file"]
                 ELSE Value({ tokens(columns, data_rows) :
                                columns \in {split(lines[header_idx])},
                                data_rows \in {data_rows_of(SubSeq(lines, header_idx + 1,
                                                                   Len(lines)))} })
             search(lines) ==
                 Value({ searched(lines, header_idx) :
                           header_idx \in {find_header(lines, 1)} })
         IN  Value({ search(lines) : lines \in {splitlines(file.content)} })

(***************************************************************************)
(* Trading dates, file names and cache keys.                               *)
(***************************************************************************)
D22 == [year |-> 2023, month |-> 8, day |-> 22]
D21 == [year |-> 2023, month |-> 8, day |-> 21]
Dates == {D21, D22}

DigitChar(n) ==
    CASE n = 0 -> "0" [] n = 1 -> "1" [] n = 2 -> "2" [] n = 3 -> "3"
      [] n = 4 -> "4" [] n = 5 -> "5" [] n = 6 -> "6" [] n = 7 -> "7"
      [] n = 8 -> "8" [] n = 9 -> "9"

TwoDigits(n) == <<DigitChar((n \div 10) % 10), DigitChar(n % 10)>>
FourDigits(n) == TwoDigits(n \div 100) \o TwoDigits(n % 100)

\* date.isoformat()
isoformat(d) ==
    FourDigits(d.year) \o <<"-">> \o TwoDigits(d.month) \o <<"-">> \o TwoDigits(d.day)

F_sp == <<"s", "p">>
F_dat == <<".", "d", "a", "t">>

\* generate_filename with the month before the day
generate_filename_MonthFirst(d) ==
    F_sp \o TwoDigits(d.month) \o TwoDigits(d.day) \o TwoDigits(d.year % 100) \o F_dat

\* _generate_filename: "sp" + strftime('%d%m%y') + ".dat"
generate_filename(d) ==
    F_sp \o TwoDigits(d.day) \o TwoDigits(d.month) \o TwoDigits(d.year % 100) \o F_dat

\* settings.hkex_base_url, which __init__ keeps as self.base_url
hkex_base_url ==
    <<"h", "t", "t", "p", "s", ":", "/", "/", "h", "k", "e", "x",
      ".", "c", "o", "m", "/", "h", "k", "/", "e", "n", "g", "/",
      "s", "t", "a", "t", "/", "d", "m", "s", "t", "a", "t", "/",
      "d", "a", "t", "a", "d", "o", "w", "n", "l", "o", "a", "d">>

\* _generate_url: base_url + "/" + the file name
generate_url(base_url, d) == base_url \o <<"/">> \o generate_filename(d)

Paths == { generate_filename(d) : d \in Dates }

K_cache == <<"c", "a", "c", "h", "e", ":">>
K_settlement_file == <<"s", "e", "t", "t", "l", "e", "m", "e", "n", "t", "_", "f", "i", "l", "e", ":">>
K_settlement_metadata == <<"s", "e", "t", "t", "l", "e", "m", "e", "n", "t", "_", "m", "e", "t", "a", "d", "a", "t", "a", ":">>

\* cache_key of _download_file
file_cache_key(d) == K_settlement_file \o isoformat(d)
\* the key of the settlement_metadata entry
metadata_key(d) == K_settlement_metadata \o isoformat(d)

RedisKeys ==
    { K_cache \o file_cache_key(d) : d \in Dates } \cup { metadata_key(d) : d \in Dates }

(***************************************************************************)
(* json.dumps / json.loads of a str, as the cache stores a document.       *)
(***************************************************************************)
QUOTE == "\""
BACKSLASH == "\\"

json_escape_char(c) ==
    CASE c = QUOTE -> <<BACKSLASH, QUOTE>>
      [] c = BACKSLASH -> <<BACKSLASH, BACKSLASH>>
      [] c = NL -> <<BACKSLASH, "n">>
      [] c = "\t" -> <<BACKSLASH, "t">>
      [] OTHER -> <<c>>

\* the escapes of s[lo..hi], in order
RECURSIVE json_escape(_, _, _)
json_escape(s, lo, hi) ==
    IF lo > hi THEN <<>>
    ELSE IF lo = hi THEN json_escape_char(s[lo])
    ELSE LET mid == (lo + hi) \div 2
         IN  json_escape(s, lo, mid) \o json_escape(s, mid + 1, hi)

json_dumps(s) == <<QUOTE>> \o json_escape(s, 1, Len(s)) \o <<QUOTE>>

\* the number of consecutive backslashes that end at position i
RECURSIVE BackslashRun(_, _)
BackslashRun(s, i) ==
    IF i < 1 THEN 0
    ELSE IF s[i] # BACKSLASH THEN 0
    ELSE 1 + BackslashRun(s, i - 1)

\* position i opens an escape sequence
EscapeAt(s, i) == s[i] = BACKSLASH /\ BackslashRun(s, i - 1) % 2 = 0

json_unescape_char(c) == CASE c = "n" -> NL [] c = "t" -> "\t" [] OTHER -> c

\* what position i of the escaped text contributes to the decoded text
json_unescape_at(s, i) ==
    IF i > 1 /\ EscapeAt(s, i - 1) THEN <<>>
    ELSE IF EscapeAt(s, i) /\ i < Len(s) THEN <<json_unescape_char(s[i + 1])>>
    ELSE <<s[i]>>

RECURSIVE json_unescape(_, _, _)
json_unescape(s, lo, hi) ==
    IF lo > hi THEN <<>>
    ELSE IF lo = hi THEN json_unescape_at(s, lo)
    ELSE LET mid == (lo + hi) \div 2
         IN  json_unescape(s, lo, mid) \o json_unescape(s, mid + 1, hi)

json_loads(s) ==
    LET body == SubSeq(s, 2, Len(s) - 1)
    IN  json_unescape(body, 1, Len(body))

(***************************************************************************)
(* RedisClient (app/database/redis_client.py).  The store maps a key to    *)
(* [present, value, ttl]; a value is the JSON text of what was set.        *)
(* `up` = FALSE is a call in which the Redis command raises.               *)
(***************************************************************************)
\* ex=None
NoExpire == 0
NoEntry == [present |-> FALSE, value |-> [t |-> "json_str", s |-> <<>>], ttl |-> NoExpire]
PyStr(s) == [t |-> "str", s |-> s]
PyDict(d) == [t |-> "dict", d |-> d]
\* a list of dicts
PyList(l) == [t |-> "list", l |-> l]
\* the value None of an Optional result
NoValue == [none |-> TRUE, v |-> PyStr(<<>>)]
Some(v) == [none |-> FALSE, v |-> v]

\* json.dumps(value) and json.loads(text) of set_config and get_config; a
\* dict is kept as the record of its entries
dumps(v) ==
    CASE v.t = "str" -> [t |-> "json_str", s |-> json_dumps(v.s)]
      [] v.t = "list" -> [t |-> "json_list", l |-> v.l]
      [] OTHER -> [t |-> "json_obj", d |-> v.d]
loads(j) ==
    CASE j.t = "json_str" -> PyStr(json_loads(j.s))
      [] j.t = "json_list" -> PyList(j.l)
      [] OTHER -> PyDict(j.d)

\* json.dumps raises TypeError on a value that is not a JSON type: the
\* datetime under created_at or download_timestamp in a row that the row
\* store returned
json_serializable(v) ==
    v.t = "list" =>
        \A i \in DOMAIN v.l :
            {"created_at", "download_timestamp"} \cap DOMAIN v.l[i] = {}

\* truthy as the test "is not None": an empty text or list counts as cached
truthy_NotNone(x) == ~x.none

\* truthy with the test left out: nothing counts as a cached document
truthy_Never(x) == FALSE

\* Python truth of an Optional value: None, "" and [] are false
truthy(x) ==
    /\ ~x.none
    /\ x.v.t = "str" => x.v.s # <<>>
    /\ x.v.t = "list" => x.v.l # <<>>

set_config(store, key, value, expire, up) ==
    IF up /\ json_serializable(value)
    THEN [ret |-> TRUE,
          store |-> [store EXCEPT ![key] =
                       [present |-> TRUE, value |-> dumps(value), ttl |-> expire]]]
    ELSE [ret |-> FALSE, store |-> store]

get_config(store, key, up) ==
    IF up /\ store[key].present THEN Some(loads(store[key].value))
    ELSE NoValue

set_cache(store, key, value, expire, up) ==
    set_config(store, K_cache \o key, value, expire, up)

get_cache(store, key, up) == get_config(store, K_cache \o key, up)

(***************************************************************************)
(* SettlementParser._download_file                                         *)
(***************************************************************************)
NoFile == [exists |-> FALSE, content |-> <<>>]
\* the expiry of a cached search result in place of expire=3600
DocumentExpire_Search == 1800
\* expire=3600 of the document cache
DocumentExpire == 3600

\* the outcomes of open(filepath, 'w') followed by f.write(text): written,
\* open() raises and the file is as before, write() raises after the file
\* was truncated
FileWriteOutcomes == {"ok", "open_raises", "write_raises"}
\* a write that leaves the file system as it was
write_file_Nothing(fs, path, text, outcome) == fs
write_file(fs, path, text, outcome) ==
    CASE outcome = "ok" -> [fs EXCEPT ![path] = [exists |-> TRUE, content |-> text]]
      [] outcome = "open_raises" -> fs
      [] outcome = "write_raises" -> [fs EXCEPT ![path] = [exists |-> TRUE, content |-> <<>>]]

\* _download_file(trading_date).  env.fetch is the outcome of requests.get
\* and raise_for_status: [kind |-> "ok", text], or kind "RequestException"
\* (connection error, timeout, HTTP error status), or kind "Exception" (any
\* error outside the requests hierarchy).
\* ret is "path" (the file path is returned), "None" or "raise".
download_file(d, env, store, fs) ==
    LET \* the body of the function once filepath, cache_key and
        \* cached_content are bound; base is the trace of a call that has
        \* done nothing yet
        body(path, cache_key, cached_content, base) ==
            IF truthy(cached_content)
            THEN LET write(written) ==
                         IF env.file_write = "ok" THEN written
                         ELSE [written EXCEPT !.ret = "raise", !.exc = "OSError"]
                 IN  write([base EXCEPT !.file_write = env.file_write,
                                        !.fs = write_file(fs, path, cached_content.v.s,
                                                          env.file_write)])
            ELSE IF env.fetch.kind = "RequestException"
                 THEN [base EXCEPT !.fetches = 1, !.fetch = env.fetch.kind, !.ret = "None"]
            ELSE IF env.fetch.kind # "ok"
                 THEN [base EXCEPT !.fetches = 1, !.fetch = env.fetch.kind,
                                   !.ret = "raise", !.exc = env.fetch.kind]
            ELSE LET write(fetched) ==
                         IF env.file_write = "ok" THEN fetched
                         ELSE [fetched EXCEPT !.ret = "raise", !.exc = "OSError"]
                     cache(sc) ==
                         write([base EXCEPT !.fetches = 1, !.fetch = env.fetch.kind,
                                  !.fetched = env.fetch.text,
                                  !.cache_sets = <<[key |-> cache_key,
                                                    value |-> env.fetch.text,
                                                    expire |-> DocumentExpire,
                                                    ret |-> sc.ret]>>,
                                  !.store = sc.store,
                                  !.file_write = env.file_write,
                                  !.fs = write_file(fs, path, env.fetch.text,
                                                    env.file_write)])
                 IN  Value({ cache(sc) :
                               sc \in {set_cache(store, cache_key, PyStr(env.fetch.text),
                                                 DocumentExpire, env.cache_set_ok)} })
        lookup(path, cache_key, cached_content) ==
            body(path, cache_key, cached_content,
                 [path |-> path, cached |-> cached_content,
                  lookup_ok |-> env.cache_get_ok,
                  hit |-> truthy(cached_content),
                  fetches |-> 0, fetch |-> "", fetched |-> <<>>, cache_sets |-> <<>>, file_write |-> "",
                  ret |-> "path", exc |-> "", store |-> store, fs |-> fs])
    IN  Value({ lookup(path, cache_key, cached_content) :
                  path \in {generate_filename(d)},
                  cache_key \in {file_cache_key(d)},
                  cached_content \in {get_cache(store, file_cache_key(d),
                                                env.cache_get_ok)} })

(***************************************************************************)
(* CassandraClient.insert_settlement_records and                           *)
(* InfluxDBClientWrapper.write_settlement_data.                            *)
(***************************************************************************)
\* a key that tells the writes of different times apart
RecordKey_WithCreatedAt(row) ==
    <<row.trading_date, row.series, row.expiry, row.strike, row.call_put,
      row.created_at>>

\* PRIMARY KEY (trading_date, series, expiry, strike, call_put)
RecordKey(row) == <<row.trading_date, row.series, row.expiry, row.strike, row.call_put>>

SettlementRow(d, record, now) ==
    [trading_date |-> d, series |-> record.series, expiry |-> record.expiry,
     strike |-> record.strike, call_put |-> record.call_put,
     settlement_price |-> record.settlement_price, volume |-> record.volume,
     open_interest |-> record.open_interest, created_at |-> now]

\* INSERT is an upsert on the primary key
RECURSIVE insert_rows(_, _, _, _)
insert_rows(table, d, records, now) ==
    IF records = <<>> THEN table
    ELSE LET row == SettlementRow(d, Head(records), now)
         IN  insert_rows({ r \in table : RecordKey(r) # RecordKey(row) } \cup {row},
                         d, Tail(records), now)

\* insert_settlement_records writing the trading_dates row before the records
insert_settlement_records_SummaryFirst(d, records, fail_at, now, sr, td) ==
    LET n == Len(records)
        k == IF fail_at = 0 \/ fail_at > n THEN n ELSE fail_at - 1
    IN  [ret |-> fail_at = 0,
         settlement_records |-> insert_rows(sr, d, SubSeq(records, 1, k), now),
         trading_dates |->
            { r \in td : r.trading_date # d } \cup
            {[trading_date |-> d, total_records |-> n,
              download_timestamp |-> now, status |-> "completed"]}]

\* insert_settlement_records(trading_date, records).  fail_at = 0: no
\* statement raises; fail_at = k > 0: the k-th execute raises (the insert of
\* the k-th record, or the insert into trading_dates after the last record).
insert_settlement_records(d, records, fail_at, now, sr, td) ==
    LET n == Len(records)
        k == IF fail_at = 0 \/ fail_at > n THEN n ELSE fail_at - 1
        done == fail_at = 0
    IN  [ret |-> done,
         settlement_records |-> insert_rows(sr, d, SubSeq(records, 1, k), now),
         trading_dates |->
            IF done
            THEN { r \in td : r.trading_date # d } \cup
                 {[trading_date |-> d, total_records |-> n,
                   download_timestamp |-> now, status |-> "completed"]}
            ELSE td]

\* a point is identified by measurement, tag set and time; strike and the
\* other values are fields
PointKey(pt) == <<pt.series, pt.expiry, pt.call_put, pt.time>>

SettlementPoint(d, record) ==
    [series |-> record.series, expiry |-> record.expiry, call_put |-> record.call_put,
     strike |-> record.strike, settlement_price |-> record.settlement_price,
     volume |-> record.volume, open_interest |-> record.open_interest, time |-> d]

RECURSIVE write_points(_, _, _)
write_points(bucket, d, records) ==
    IF records = <<>> THEN bucket
    ELSE LET pt == SettlementPoint(d, Head(records))
         IN  write_points({ q \in bucket : PointKey(q) # PointKey(pt) } \cup {pt},
                          d, Tail(records))

\* write_settlement_data(trading_date, records); ok = FALSE: the write raises
write_settlement_data(d, records, ok, bucket) ==
    [ret |-> ok, influx |-> IF ok THEN write_points(bucket, d, records) ELSE bucket]

(***************************************************************************)
(* SettlementParser.download_and_parse                                     *)
(***************************************************************************)
Message(text, d, count, err) == [text |-> text, date |-> d, count |-> count, err |-> err]

Result(status, message, records_count, now) ==
    [status |-> status, message |-> message, records_count |-> records_count,
     download_timestamp |-> now]

\* the value of `result` when the call raised instead of returning
NoResult == Result("", Message("", D22, 0, ""), 0, 0)

\* return of lines 129-134
DownloadFailedResult(d, now) ==
    Result("error", Message("Failed to download file for", d, 0, ""), 0, now)

\* NoRecordsResult reporting the missing header instead
NoRecordsResult_HeaderMessage(d, now) ==
    Result("error", Message("Could not find header line for", d, 0, ""), 0, now)

\* return of lines 139-144
NoRecordsResult(d, now) ==
    Result("error", Message("No valid records found for", d, 0, ""), 0, now)

\* SuccessResult reporting the stored run as an error
SuccessResult_AsError(d, records, now) ==
    Result("error", Message("Successfully processed", d, Len(records), ""),
           Len(records), now)

\* SuccessResult counting one record too few
SuccessResult_WrongCount(d, records, now) ==
    Result("success", Message("Successfully processed", d, Len(records) - 1, ""),
           Len(records) - 1, now)

\* return of lines 169-174
SuccessResult(d, records, now) ==
    Result("success", Message("Successfully processed", d, Len(records), ""),
           Len(records), now)

\* HandleException without the handler: the exception leaves the call
HandleException_Propagates(exc, d, now) ==
    [raised |-> TRUE, result |-> Result("", Message("", d, 0, exc), 0, now)]

\* the handler of lines 175-182: [raised, result]
HandleException(exc, d, now) ==
    [raised |-> FALSE,
     result |-> Result("error", Message("Error processing data:", d, 0, exc), 0, now)]

\* download_failed without the test of the returned path
download_failed_Never(dl) == FALSE

\* `if not filepath`
download_failed(dl) == dl.ret = "None"

\* no_records without the test of the parsed list
no_records_Never(records) == FALSE

\* `if not records`
no_records(records) == records = <<>>

\* Metadata with the two success flags exchanged
Metadata_FlagsSwapped(d, records, now, cassandra_success, influxdb_success) ==
    [trading_date |-> isoformat(d), total_records |-> Len(records),
     download_timestamp |-> now, cassandra_success |-> influxdb_success,
     influxdb_success |-> cassandra_success]

\* the metadata dict of lines 160-166
Metadata(d, records, now, cassandra_success, influxdb_success) ==
    [trading_date |-> isoformat(d), total_records |-> Len(records),
     download_timestamp |-> now, cassandra_success |-> cassandra_success,
     influxdb_success |-> influxdb_success]

\* store_in_databases that gives up after a failed row-store insert
store_in_databases_StopOnFailure(d, records, env, now, store, sr, td, bucket) ==
    LET metadata(c, i, m) ==
            IF c.ret
            THEN [store |-> m.store, settlement_records |-> c.settlement_records,
                  trading_dates |-> c.trading_dates, influx |-> i.influx,
                  insert_calls |-> <<[date |-> d, records |-> records, ret |-> c.ret]>>,
                  write_calls |-> <<[date |-> d, records |-> records, ret |-> i.ret]>>,
                  metadata_sets |-> <<[key |-> metadata_key(d), ret |-> m.ret]>>]
            ELSE [store |-> store, settlement_records |-> c.settlement_records,
                  trading_dates |-> c.trading_dates, influx |-> bucket,
                  insert_calls |-> <<[date |-> d, records |-> records, ret |-> c.ret]>>,
                  write_calls |-> <<>>, metadata_sets |-> <<>>]
        stores(c, i) ==
            Value({ metadata(c, i, m) :
                      m \in {set_config(store, metadata_key(d),
                                        PyDict(Metadata(d, records, now, c.ret, i.ret)),
                                        NoExpire, env.metadata_set_ok)} })
    IN  Value({ stores(c, i) :
                  c \in {insert_settlement_records(d, records, env.cassandra_fail_at,
                                                   now, sr, td)},
                  i \in {write_settlement_data(d, records, env.influx_ok, bucket)} })

\* lines 146-167: the writes to the row store, the time-series store and the
\* settlement_metadata entry
\* c is the result of cassandra_client.insert_settlement_records, i of
\* influxdb_client.write_settlement_data, m of redis_client.set_config
store_in_databases(d, records, env, now, store, sr, td, bucket) ==
    LET metadata(c, i, m) ==
            [store |-> m.store, settlement_records |-> c.settlement_records,
             trading_dates |-> c.trading_dates, influx |-> i.influx,
             insert_calls |-> <<[date |-> d, records |-> records, ret |-> c.ret]>>,
             write_calls |-> <<[date |-> d, records |-> records, ret |-> i.ret]>>,
             metadata_sets |-> <<[key |-> metadata_key(d), ret |-> m.ret]>>]
        stores(c, i) ==
            Value({ metadata(c, i, m) :
                      m \in {set_config(store, metadata_key(d),
                                        PyDict(Metadata(d, records, now, c.ret, i.ret)),
                                        NoExpire, env.metadata_set_ok)} })
    IN  Value({ stores(c, i) :
                  c \in {insert_settlement_records(d, records, env.cassandra_fail_at,
                                                   now, sr, td)},
                  i \in {write_settlement_data(d, records, env.influx_ok, bucket)} })

\* what a call of _download_file did, without the stores
DownloadTrace(dl) ==
    [path |-> dl.path, cached |-> dl.cached,
     hit |-> dl.hit, fetches |-> dl.fetches,
     fetch |-> dl.fetch, fetched |-> dl.fetched, cache_sets |-> dl.cache_sets,
     file_write |-> dl.file_write, ret |-> dl.ret, exc |-> dl.exc]

\* the parser that download_and_parse calls: _parse_file, or the canned list
\* with which the unit tests replace it
call_parse_file(patch, file, read_ok) ==
    IF patch.on THEN [raised |-> FALSE, records |-> patch.value, log |-> "patched"]
    ELSE parse_file(file, read_ok)

\* download_and_parse(trading_date) in the stores (store, fs, sr, td, bucket)
\* dl is the result of _download_file, pr of _parse_file and w of the
\* writes to the stores; early is the trace of a call that ends before it
\* parses, parsed of one that has parsed
download_and_parse(d, env, patch, now, store, fs, sr, td, bucket) ==
    LET stored(parsed, records, w) ==
            [parsed EXCEPT !.result = SuccessResult(d, records, now),
                           !.store = w.store,
                           !.settlement_records = w.settlement_records,
                           !.trading_dates = w.trading_dates,
                           !.influx = w.influx,
                           !.insert_calls = w.insert_calls,
                           !.write_calls = w.write_calls,
                           !.metadata_sets = w.metadata_sets]
        after_parse(dl, parsed, records) ==
            IF no_records(records)
            THEN [parsed EXCEPT !.result = NoRecordsResult(d, now)]
            ELSE Value({ stored(parsed, records, w) :
                           w \in {store_in_databases(d, records, env, now,
                                                     dl.store, sr, td, bucket)} })
        parse(dl, early, pr) ==
            after_parse(dl,
                        [early EXCEPT !.parse_calls = <<dl.path>>,
                                      !.parse_log = pr.log,
                                      !.records = pr.records],
                        pr.records)
        handled(early, h) == [early EXCEPT !.raised = h.raised, !.result = h.result]
        after_download(dl, early) ==
            IF dl.ret = "raise"
            THEN Value({ handled(early, h) : h \in {HandleException(dl.exc, d, now)} })
            ELSE IF download_failed(dl)
            THEN [early EXCEPT !.result = DownloadFailedResult(d, now)]
            ELSE Value({ parse(dl, early, pr) :
                           pr \in {call_parse_file(patch, dl.fs[dl.path],
                                                   env.file_read_ok)} })
        download(dl) ==
            after_download(dl,
                [raised |-> FALSE, result |-> NoResult,
                 store |-> dl.store, fs |-> dl.fs, settlement_records |-> sr,
                 trading_dates |-> td, influx |-> bucket,
                 download |-> DownloadTrace(dl),
                 parse_calls |-> <<>>, parse_log |-> "", records |-> <<>>,
                 insert_calls |-> <<>>, write_calls |-> <<>>, metadata_sets |-> <<>>])
    IN  Value({ download(dl) : dl \in {download_file(d, env, store, fs)} })

(***************************************************************************)
(* State.                                                                  *)
(***************************************************************************)
VARIABLES
    redis,               \* the Redis store: [RedisKeys -> entry]
    files,               \* the files of data_dir: [Paths -> file]
    settlement_records,  \* Cassandra table settlement_records: set of rows
    trading_dates,       \* Cassandra table trading_dates: set of rows
    influx,              \* the InfluxDB bucket: set of points
    clock,               \* datetime.now(), one tick per call of the service
    parse_patch,         \* the replacement of _parse_file, if a test installed one
    last,                \* what the last call of the service did and returned
    tasks                \* the background tasks: each one's position in
                         \* download_and_parse and its local variables

vars == <<redis, files, settlement_records, trading_dates, influx, clock,
          parse_patch, last, tasks>>

\* the background tasks that POST /download has scheduled
Tasks == 1..MaxTasks
\* a task that has not started: pc is the position in download_and_parse,
\* date the argument, doc the text that _download_file obtained and parsed
\* the text that _parse_file read
IdleTask == [pc |-> "idle", date |-> D22, doc |-> <<>>, parsed |-> <<>>,
             result |-> NoResult]

\* the documents the exchange site serves in the pipeline specification:
\* an empty body, free text without header, the sample file of the tests,
\* and a file whose only row has a malformed strike
EmptyDoc == <<>>
NoHeaderDoc == join(<<NL>>, <<Preamble, join(<<SP>>, RowTokens1)>>)
SampleDoc ==
    join(<<NL>>, <<Preamble, HeaderText, join(<<SP>>, RowTokens1),
                   join(<<SP>>, RowTokens2)>>)
BadRowDoc == join(<<NL>>, <<HeaderText, join(<<SP>>, RowBadStrike)>>)
SiteDocs == {EmptyDoc, NoHeaderDoc, SampleDoc, BadRowDoc}

FetchOutcomes ==
    { [kind |-> "ok", text |-> t] : t \in SiteDocs }
    \cup { [kind |-> k, text |-> <<>>] : k \in {"RequestException", "Exception"} }

\* What the collaborators do during one call: env is a record
\*   cache_get_ok       the Redis GET of the lookup does not raise
\*   fetch              the outcome of the HTTP request
\*   cache_set_ok       the Redis SET of the document does not raise
\*   file_write         the outcome of writing the local file
\*   file_read_ok       _parse_file can open and read the file
\*   cassandra_fail_at  the statement of the row store that raises, 0 for none
\*   influx_ok          the time-series write does not raise
\*   metadata_set_ok    the Redis SET of the metadata does not raise
\* A field is enumerated only where the call reaches the collaborator; where
\* it does not, the field is held at a fixed value.
DownloadEnvs(d, store) ==
    UNION { IF truthy(get_cache(store, file_cache_key(d), g))
            THEN { [cache_get_ok |-> g, cache_set_ok |-> TRUE, file_write |-> w,
                    fetch |-> [kind |-> "RequestException", text |-> <<>>]] :
                     w \in FileWriteOutcomes }
            ELSE { [cache_get_ok |-> g, cache_set_ok |-> s, file_write |-> w,
                    fetch |-> f] :
                     s \in BOOLEAN, w \in FileWriteOutcomes,
                     f \in { x \in FetchOutcomes : x.kind = "ok" } }
                 \cup
                 { [cache_get_ok |-> g, cache_set_ok |-> TRUE, file_write |-> "ok",
                    fetch |-> f] :
                     f \in { x \in FetchOutcomes : x.kind # "ok" } }
          : g \in BOOLEAN }

ParseEnvs(dl, patch) ==
    IF dl.ret = "path" /\ ~patch.on THEN BOOLEAN ELSE {TRUE}

\* the stores' outcomes of a run that never reaches them
StoreEnvNone == [cassandra_fail_at |-> 0, influx_ok |-> TRUE, metadata_set_ok |-> TRUE]

StoreEnvs(records) ==
    IF records = <<>>
    THEN {StoreEnvNone}
    ELSE [cassandra_fail_at : 0..(Len(records) + 1), influx_ok : BOOLEAN,
          metadata_set_ok : BOOLEAN]

MakeEnv(de, read_ok, se) ==
    [cache_get_ok |-> de.cache_get_ok, fetch |-> de.fetch,
     cache_set_ok |-> de.cache_set_ok, file_write |-> de.file_write,
     file_read_ok |-> read_ok, cassandra_fail_at |-> se.cassandra_fail_at,
     influx_ok |-> se.influx_ok, metadata_set_ok |-> se.metadata_set_ok]

NoPatch == [on |-> FALSE, value |-> <<>>]

InitStores ==
    /\ redis = [k \in RedisKeys |-> NoEntry]
    /\ settlement_records = {}
    /\ trading_dates = {}
    /\ influx = {}
    /\ clock = 0
    /\ last = [op |-> "none"]
    /\ tasks = [p \in Tasks |-> IdleTask]

\* the service after construction: empty stores, empty data_dir
Init ==
    /\ InitStores
    /\ files = [p \in Paths |-> NoFile]
    /\ parse_patch = NoPatch

(***************************************************************************)
(* Operations.                                                             *)
(***************************************************************************)
\* the number of calls a behaviour may make
CallLimit == IF parse_patch.on THEN MaxPatchedCalls ELSE MaxClock

\* a call of download_and_parse(d)
DownloadAndParse(d) ==
    /\ clock < CallLimit
    /\ \E de \in DownloadEnvs(d, redis) :
       \E dl \in {download_file(d, de, redis, files)} :
       \E read_ok \in ParseEnvs(dl, parse_patch) :
       \E pr \in {IF dl.ret = "path"
                  THEN call_parse_file(parse_patch, dl.fs[dl.path], read_ok)
                  ELSE [raised |-> FALSE, records |-> <<>>, log |-> ""]} :
       \E se \in StoreEnvs(pr.records) :
       \E r \in {download_and_parse(d, MakeEnv(de, read_ok, se), parse_patch, clock,
                                    redis, files, settlement_records,
                                    trading_dates, influx)} :
          /\ redis' = r.store
          /\ files' = r.fs
          /\ settlement_records' = r.settlement_records
          /\ trading_dates' = r.trading_dates
          /\ influx' = r.influx
          /\ last' = [op |-> "download_and_parse", date |-> d,
                      raised |-> r.raised, result |-> r.result,
                      download |-> r.download,
                      document_entry |-> r.store[K_cache \o file_cache_key(d)],
                      parse_calls |-> r.parse_calls,
                      parse_log |-> r.parse_log,
                      records |-> r.records,
                      insert_calls |-> r.insert_calls,
                      write_calls |-> r.write_calls,
                      metadata_sets |-> r.metadata_sets]
    /\ clock' = clock + 1
    /\ UNCHANGED <<parse_patch, tasks>>

\* a call of _parse_file(path) on its own
ParseFile(path) ==
    /\ clock < CallLimit
    /\ \E read_ok \in BOOLEAN :
         \E pr \in {parse_file(files[path], read_ok)} :
             last' = [op |-> "_parse_file", path |-> path, file |-> files[path],
                      read_ok |-> read_ok, raised |-> pr.raised,
                      records |-> pr.records, log |-> pr.log]
    /\ clock' = clock + 1
    /\ UNCHANGED <<redis, files, settlement_records, trading_dates, influx,
                   parse_patch, tasks>>

\* Redis drops an entry whose expiry time has passed
Expire(key) ==
    /\ redis[key].present
    /\ redis[key].ttl # NoExpire
    /\ redis' = [redis EXCEPT ![key] = NoEntry]
    /\ UNCHANGED <<files, settlement_records, trading_dates, influx, clock,
                   parse_patch, last, tasks>>

Next ==
    \/ \E d \in Dates : DownloadAndParse(d)
    \/ \E p \in Paths : ParseFile(p)
    \/ \E k \in RedisKeys : Expire(k)

Spec == Init /\ [][Next]_vars

(***************************************************************************)
(* The pipeline as the unit tests of download_and_parse run it: with       *)
(* _parse_file replaced by a canned list of records.                       *)
(***************************************************************************)
\* the record of test_download_and_parse_success
Rec1 ==
    [series |-> T_HTI2308, expiry |-> T_Expiry, strike |-> 18000 * FloatScale,
     call_put |-> T_Call, settlement_price |-> 1234, volume |-> 100,
     open_interest |-> 50]
\* the second record of the feature steps
Rec2 ==
    [series |-> T_HTI2308, expiry |-> T_Expiry, strike |-> 18500 * FloatScale,
     call_put |-> T_Put, settlement_price |-> 5678, volume |-> 200,
     open_interest |-> 75]

PatchValues == {<<>>, <<Rec1>>, <<Rec1, Rec2>>, <<Rec1, Rec1>>}

InitPatched ==
    /\ InitStores
    /\ files = [p \in Paths |-> NoFile]
    /\ parse_patch \in {NoPatch} \cup { [on |-> TRUE, value |-> v] : v \in PatchValues }

NextPatched ==
    \/ \E d \in Dates : DownloadAndParse(d)
    \/ \E k \in RedisKeys : Expire(k)

SpecPatched == InitPatched /\ [][NextPatched]_vars

(***************************************************************************)
(* The parser on its own: _parse_file applied to every document of Docs.   *)
(***************************************************************************)
DummyPath == generate_filename(D22)

InitParse ==
    /\ InitStores
    /\ parse_patch = NoPatch
    /\ \E doc \in Docs :
         files = [p \in Paths |->
                    IF p = DummyPath THEN [exists |-> TRUE, content |-> doc]
                    ELSE NoFile]

NextParse == \E p \in Paths : ParseFile(p)

SpecParse == InitParse /\ [][NextParse]_vars

(***************************************************************************)
(* The file name and the URL of a trading date: _generate_filename and     *)
(* _generate_url applied to the dates of the calendar years in Years.      *)
(***************************************************************************)
Years == {2000, 2023}

\* the days of a month of datetime.date
DaysInMonth(y, m) ==
    IF m \in {4, 6, 9, 11} THEN 30
    ELSE IF m # 2 THEN 31
    ELSE IF y % 4 = 0 /\ (y % 100 # 0 \/ y % 400 = 0) THEN 29
    ELSE 28

AllDates ==
    UNION { { [year |-> y, month |-> m, day |-> dd] : dd \in 1..DaysInMonth(y, m) } :
            y \in Years, m \in 1..12 }

\* a call of _generate_filename(d)
GenerateFilename(d) ==
    /\ last' = [op |-> "_generate_filename", date |-> d, ret |-> generate_filename(d)]
    /\ UNCHANGED <<redis, files, settlement_records, trading_dates, influx, clock,
                   parse_patch, tasks>>

\* a call of _generate_url(d)
GenerateUrl(d) ==
    /\ last' = [op |-> "_generate_url", date |-> d,
                base_url |-> hkex_base_url,
                ret |-> generate_url(hkex_base_url, d)]
    /\ UNCHANGED <<redis, files, settlement_records, trading_dates, influx, clock,
                   parse_patch, tasks>>

NextNames ==
    \/ \E d \in AllDates : GenerateFilename(d)
    \/ \E d \in AllDates : GenerateUrl(d)

SpecNames == Init /\ [][NextNames]_vars

(***************************************************************************)
(* Background tasks.  POST /download hands download_and_parse to a         *)
(* background task, which runs the function in a worker thread, so two     *)
(* calls interleave.  A task takes the steps of download_and_parse one at  *)
(* a time: the cache lookup and the HTTP call, open(filepath, 'w'), the    *)
(* write, and _parse_file with the rest of the function.                   *)
(***************************************************************************)
\* lines 37-56 of _download_file in task p for date d: the cache lookup and,
\* on a miss, the HTTP call and the cache write
TaskDownload(p, d) ==
    /\ tasks[p].pc = "idle"
    /\ \E de \in { e \in DownloadEnvs(d, redis) : e.file_write = "ok" } :
       \E dl \in {download_file(d, MakeEnv(de, TRUE, CHOOSE se \in StoreEnvs(<<>>) : TRUE),
                                redis, files)} :
          /\ redis' = dl.store
          /\ tasks' = [tasks EXCEPT ![p] =
                CASE dl.ret = "raise" ->
                       [pc |-> "done", date |-> d, doc |-> <<>>, parsed |-> <<>>,
                        result |-> HandleException(dl.exc, d, clock).result]
                  [] download_failed(dl) ->
                       [pc |-> "done", date |-> d, doc |-> <<>>, parsed |-> <<>>,
                        result |-> DownloadFailedResult(d, clock)]
                  [] OTHER ->
                       [pc |-> "open", date |-> d,
                        doc |-> IF dl.hit THEN dl.cached.v.s ELSE dl.fetched,
                        parsed |-> <<>>, result |-> NoResult]]
    /\ UNCHANGED <<files, settlement_records, trading_dates, influx, clock,
                   parse_patch, last>>

\* open(filepath, 'w') of lines 46 and 59: the file exists and is empty
TaskOpen(p) ==
    /\ tasks[p].pc = "open"
    /\ files' = [files EXCEPT ![generate_filename(tasks[p].date)] =
                    [exists |-> TRUE, content |-> <<>>]]
    /\ tasks' = [tasks EXCEPT ![p].pc = "write"]
    /\ UNCHANGED <<redis, settlement_records, trading_dates, influx, clock,
                   parse_patch, last>>

\* f.write(...) and the close of lines 47 and 60
TaskWrite(p) ==
    /\ tasks[p].pc = "write"
    /\ files' = write_file(files, generate_filename(tasks[p].date), tasks[p].doc, "ok")
    /\ tasks' = [tasks EXCEPT ![p].pc = "parse"]
    /\ UNCHANGED <<redis, settlement_records, trading_dates, influx, clock,
                   parse_patch, last>>

\* lines 137-174 of download_and_parse: _parse_file reads the file at the
\* task's path, then the stores are written and the summary returned
TaskParse(p) ==
    /\ tasks[p].pc = "parse"
    /\ \E d \in {tasks[p].date} :
       \E file \in {files[generate_filename(d)]} :
       \E pr \in {call_parse_file(parse_patch, file, TRUE)} :
          IF no_records(pr.records)
          THEN /\ tasks' = [tasks EXCEPT ![p].pc = "done",
                                         ![p].parsed = file.content,
                                         ![p].result = NoRecordsResult(d, clock)]
               /\ UNCHANGED <<redis, settlement_records, trading_dates, influx>>
          ELSE \E se \in StoreEnvs(pr.records) :
               \E w \in {store_in_databases(d, pr.records, se, clock, redis,
                                            settlement_records, trading_dates,
                                            influx)} :
                  /\ tasks' = [tasks EXCEPT ![p].pc = "done",
                                            ![p].parsed = file.content,
                                            ![p].result =
                                                SuccessResult(d, pr.records, clock)]
                  /\ redis' = w.store
                  /\ settlement_records' = w.settlement_records
                  /\ trading_dates' = w.trading_dates
                  /\ influx' = w.influx
    /\ UNCHANGED <<files, clock, parse_patch, last>>

InitTasks == Init

NextTasks ==
    \/ \E p \in Tasks, d \in Dates : TaskDownload(p, d)
    \/ \E p \in Tasks : TaskOpen(p)
    \/ \E p \in Tasks : TaskWrite(p)
    \/ \E p \in Tasks : TaskParse(p)

SpecTasks == InitTasks /\ [][NextTasks]_vars

(***************************************************************************)
(* Symbol search: SettlementParser.search_symbol over                      *)
(* CassandraClient.get_settlement_records and the Redis cache.             *)
(***************************************************************************)
\* the characters of the model's texts in ASCII order
Ascii ==
    <<"-", ".", "0", "1", "2", "3", "4", "5", "6", "7", "8", "9", ":",
      "A", "B", "C", "D", "E", "F", "G", "H", "I", "J", "K", "L", "M",
      "N", "O", "P", "Q", "R", "S", "T", "U", "V", "W", "X", "Y", "Z", "_",
      "a", "b", "c", "d", "e", "f", "g", "h", "i", "j", "k", "l", "m",
      "n", "o", "p", "q", "r", "s", "t", "u", "v", "w", "x", "y", "z">>
CharCode(c) == CHOOSE n \in 1..Len(Ascii) : Ascii[n] = c

\* the order of two text values
TextLess(a, b) ==
    \E i \in 1..(Len(a) + 1) :
        /\ i <= Len(b)
        /\ \A j \in 1..(i - 1) : a[j] = b[j]
        /\ i = Len(a) + 1 \/ CharCode(a[i]) < CharCode(b[i])

\* the order of two rows of one partition: by the clustering columns
\* series, expiry, strike, call_put of the primary key
ClusteringLess(r, q) ==
    \/ TextLess(r.series, q.series)
    \/ /\ r.series = q.series
       /\ \/ TextLess(r.expiry, q.expiry)
          \/ /\ r.expiry = q.expiry
             /\ \/ r.strike < q.strike
                \/ r.strike = q.strike /\ TextLess(r.call_put, q.call_put)

\* the rows of a partition in the order a SELECT returns them
RECURSIVE clustering_order(_)
clustering_order(rows) ==
    IF rows = {} THEN <<>>
    ELSE Value({ <<m>> \o clustering_order(rows \ {m}) :
                   m \in { r \in rows :
                             \A q \in rows : q = r \/ ClusteringLess(r, q) } })

\* the dict that get_settlement_records builds from a row
RecordOfRow(row) ==
    [series |-> row.series, expiry |-> row.expiry, strike |-> row.strike,
     call_put |-> row.call_put, settlement_price |-> row.settlement_price,
     volume |-> row.volume, open_interest |-> row.open_interest,
     created_at |-> row.created_at]

\* get_settlement_records(trading_date, symbol): the rows of the date whose
\* series starts with symbol (all rows of the date for an empty symbol);
\* ok = FALSE: prepare or execute raises and the handler returns []
get_settlement_records(sr, d, symbol, ok) ==
    IF ~ok THEN <<>>
    ELSE Value({ [i \in 1..Len(rows) |-> RecordOfRow(rows[i])] :
                   rows \in {clustering_order(
                               { r \in sr : /\ r.trading_date = d
                                            /\ symbol # <<>> =>
                                                 startswith(r.series, symbol) })} })

K_symbol_search == <<"s", "y", "m", "b", "o", "l", "_", "s", "e", "a", "r", "c", "h", ":">>
\* cache_key of search_symbol
search_cache_key(symbol, d) == K_symbol_search \o symbol \o <<":">> \o isoformat(d)
\* the default of set_cache, expire=3600, in place of expire=1800
SearchExpire_Default == 3600
\* expire=1800 of a cached search result
SearchExpire == 1800

\* search_symbol(symbol, trading_date).  env is [cache_get_ok, query_ok,
\* cache_set_ok].  queries lists the calls of get_settlement_records and
\* cache_sets the calls of set_cache with what each returned.
search_symbol(symbol, d, env, store, sr) ==
    Value({
      IF truthy(cached)
      THEN [ret |-> cached.v.l, store |-> store, cached |-> cached,
            queries |-> <<>>, cache_sets |-> <<>>]
      ELSE Value({
             Value({ [ret |-> records, store |-> sc.store, cached |-> cached,
                      queries |-> <<[trading_date |-> d, symbol |-> symbol,
                                     ret |-> records]>>,
                      cache_sets |-> <<[key |-> search_cache_key(symbol, d),
                                        value |-> records,
                                        expire |-> SearchExpire,
                                        ret |-> sc.ret]>>] :
                       sc \in {set_cache(store, search_cache_key(symbol, d),
                                         PyList(records), SearchExpire,
                                         env.cache_set_ok)} }) :
               records \in {get_settlement_records(sr, d, symbol, env.query_ok)} })
      : cached \in {get_cache(store, search_cache_key(symbol, d), env.cache_get_ok)} })

\* the symbols searched for
S_HTI == <<"H", "T", "I">>
S_HSI == <<"H", "S", "I">>
Symbols == {S_HTI, S_HSI, <<>>}

K_trading_dates == <<"t", "r", "a", "d", "i", "n", "g", "_", "d", "a", "t", "e", "s">>

SearchKeys ==
    { K_cache \o search_cache_key(sym, d) : sym \in Symbols, d \in Dates }
    \cup {K_cache \o K_trading_dates}

\* what the collaborators do during one search; a field is enumerated only
\* where the call reaches the collaborator
SearchEnvs(symbol, d, store) ==
    UNION { IF truthy(get_cache(store, search_cache_key(symbol, d), g))
            THEN {[cache_get_ok |-> g, query_ok |-> TRUE, cache_set_ok |-> TRUE]}
            ELSE { [cache_get_ok |-> g, query_ok |-> q, cache_set_ok |-> c] :
                     q \in BOOLEAN, c \in BOOLEAN }
          : g \in BOOLEAN }

\* a record of the series HSI2308
Rec3 ==
    [series |-> T_HSI2308, expiry |-> T_Expiry, strike |-> 19000 * FloatScale,
     call_put |-> T_Call, settlement_price |-> 9012, volume |-> 150,
     open_interest |-> 60]

\* the record lists that earlier pipeline runs stored
StoredLists == {<<>>, <<Rec1, Rec2>>, <<Rec3, Rec2, Rec1>>}

\* the search cache as test_search_symbol_from_cache sets it up: no entry,
\* or the record of the test under the key of (HTI, 2023-08-22)
CachedRecords == <<Rec1>>
SearchCaches ==
    { [k \in RedisKeys \cup SearchKeys |-> NoEntry],
      [k \in RedisKeys \cup SearchKeys |->
         IF k = K_cache \o search_cache_key(S_HTI, D22)
         THEN [present |-> TRUE, value |-> dumps(PyList(CachedRecords)),
               ttl |-> SearchExpire]
         ELSE NoEntry] }

\* the service with a row store that holds the records of earlier runs
InitSearch ==
    /\ redis \in SearchCaches
    /\ \E l22 \in StoredLists, l21 \in {<<>>, <<Rec1>>} :
         \E a \in {IF l22 = <<>>
                   THEN [settlement_records |-> {}, trading_dates |-> {}]
                   ELSE insert_settlement_records(D22, l22, 0, 0, {}, {})} :
         \E b \in {IF l21 = <<>> THEN a
                   ELSE insert_settlement_records(D21, l21, 0, 0,
                                                  a.settlement_records,
                                                  a.trading_dates)} :
            /\ settlement_records = b.settlement_records
            /\ trading_dates = b.trading_dates
    /\ influx = {}
    /\ clock = 0
    /\ last = [op |-> "none"]
    /\ tasks = [p \in Tasks |-> IdleTask]
    /\ files = [p \in Paths |-> NoFile]
    /\ parse_patch = NoPatch

\* a call of search_symbol(symbol, d)
SearchSymbol(symbol, d) ==
    /\ \E env \in SearchEnvs(symbol, d, redis) :
       \E r \in {search_symbol(symbol, d, env, redis, settlement_records)} :
          /\ redis' = r.store
          /\ last' = [op |-> "search_symbol", symbol |-> symbol, date |-> d,
                      entry |-> redis[K_cache \o search_cache_key(symbol, d)],
                      ret |-> r.ret, cached |-> r.cached,
                      queries |-> r.queries, cache_sets |-> r.cache_sets]
    /\ UNCHANGED <<files, settlement_records, trading_dates, influx, clock,
                   parse_patch, tasks>>

NextSearch ==
    \/ \E sym \in Symbols, d \in Dates : SearchSymbol(sym, d)
    \/ \E k \in SearchKeys : Expire(k)

SpecSearch == InitSearch /\ [][NextSearch]_vars

(***************************************************************************)
(* The list of trading dates: SettlementParser.get_trading_dates over      *)
(* CassandraClient.get_trading_dates and the Redis cache.                  *)
(***************************************************************************)
DateLess(a, b) ==
    \/ a.year < b.year
    \/ a.year = b.year /\ a.month < b.month
    \/ a.year = b.year /\ a.month = b.month /\ a.day < b.day

\* ORDER BY trading_date DESC
RECURSIVE date_order_desc(_)
date_order_desc(rows) ==
    IF rows = {} THEN <<>>
    ELSE Value({ <<m>> \o date_order_desc(rows \ {m}) :
                   m \in { r \in rows :
                             \A q \in rows :
                                q = r \/ DateLess(q.trading_date, r.trading_date) } })

\* CassandraClient.get_trading_dates(); ok = FALSE: execute raises and the
\* handler returns []
cassandra_get_trading_dates(td, ok) ==
    IF ~ok THEN <<>>
    ELSE Value({ [i \in 1..Len(rows) |->
                    [trading_date |-> isoformat(rows[i].trading_date),
                     total_records |-> rows[i].total_records,
                     download_timestamp |-> rows[i].download_timestamp,
                     status |-> rows[i].status]] :
                   rows \in {date_order_desc(td)} })

\* SettlementParser.get_trading_dates(); env is [cache_get_ok, query_ok,
\* cache_set_ok]
get_trading_dates(env, store, td) ==
    Value({
      IF truthy(cached)
      THEN [ret |-> cached.v.l, store |-> store, cached |-> cached,
            queries |-> 0, cache_sets |-> <<>>]
      ELSE Value({
             Value({ [ret |-> dates, store |-> sc.store, cached |-> cached,
                      queries |-> 1,
                      cache_sets |-> <<[key |-> K_trading_dates, value |-> dates,
                                        expire |-> DocumentExpire,
                                        ret |-> sc.ret]>>] :
                       sc \in {set_cache(store, K_trading_dates, PyList(dates),
                                         DocumentExpire, env.cache_set_ok)} }) :
               dates \in {cassandra_get_trading_dates(td, env.query_ok)} })
      : cached \in {get_cache(store, K_trading_dates, env.cache_get_ok)} })

(***************************************************************************)
(* The command line (app/cli.py).  A command is modelled by its exit       *)
(* status: 0 when the handler returns, 1 when it calls sys.exit(1).        *)
(***************************************************************************)
\* date.fromisoformat(text) for a text YYYY-MM-DD: [ok, date]; ok = FALSE
\* is the ValueError
fromisoformat(text) ==
    IF /\ Len(text) = 10
       /\ text[5] = "-" /\ text[8] = "-"
       /\ \A i \in {1, 2, 3, 4, 6, 7, 9, 10} : text[i] \in Digits
    THEN Value({ [ok |-> /\ y >= 1
                         /\ m \in 1..12
                         /\ dd >= 1 /\ dd <= DaysInMonth(y, m),
                  date |-> [year |-> y, month |-> m, day |-> dd]] :
                   y \in {DigitsValue(SubSeq(text, 1, 4))},
                   m \in {DigitsValue(SubSeq(text, 6, 7))},
                   dd \in {DigitsValue(SubSeq(text, 9, 10))} })
    ELSE [ok |-> FALSE, date |-> D22]

\* a date that is no date of the calendar
T_BadDay == <<"2", "0", "2", "3", "-", "0", "2", "-", "3", "0">>
\* the date arguments of the command line
DateArgs == { isoformat(d) : d \in Dates } \cup {T_invalid, T_BadDay}
NoDateArg == [given |-> FALSE, text |-> <<>>]
OptionalDateArgs == {NoDateArg} \cup { [given |-> TRUE, text |-> t] : t \in DateArgs }

QueryEnvs == [cache_get_ok : BOOLEAN, query_ok : BOOLEAN, cache_set_ok : BOOLEAN]
\* the collaborators during a call that is not made
NoQueryEnv == [cache_get_ok |-> TRUE, query_ok |-> TRUE, cache_set_ok |-> TRUE]

\* what a command did: exit status, the cache after it, and what went wrong
\*   invalid_date  the date argument was rejected
\*   store_failed  a query of the row store raised
\*   cache_failed  a lookup in the cache raised
\*   records       the records or dates that the command printed
CommandTrace(exit, store, invalid_date, store_failed, cache_failed, records) ==
    [exit |-> exit, store |-> store, invalid_date |-> invalid_date,
     store_failed |-> store_failed, cache_failed |-> cache_failed,
     records |-> records]

\* the part of search_command and symbols_command after the date is known
search_and_print(symbol, d, env, store, sr, failed_before, cache_failed_before) ==
    Value({ CommandTrace(0, r.store, FALSE,
                         failed_before \/ (r.queries # <<>> /\ ~env.query_ok),
                         cache_failed_before \/ ~env.cache_get_ok, r.ret) :
              r \in {search_symbol(symbol, d, env, store, sr)} })

\* search_command(args) with args.symbol and the optional args.date
search_command(symbol, arg, dates_env, env, store, sr, td) ==
    IF arg.given
    THEN Value({ IF ~parsed.ok
                 THEN CommandTrace(1, store, TRUE, FALSE, FALSE, <<>>)
                 ELSE search_and_print(symbol, parsed.date, env, store, sr,
                                       FALSE, FALSE) :
                   parsed \in {fromisoformat(arg.text)} })
    ELSE Value({ IF g.ret = <<>>
                 THEN CommandTrace(1, g.store, FALSE,
                                   g.queries = 1 /\ ~dates_env.query_ok,
                                   ~dates_env.cache_get_ok, <<>>)
                 ELSE search_and_print(symbol,
                                       fromisoformat(g.ret[1].trading_date).date,
                                       env, g.store, sr,
                                       g.queries = 1 /\ ~dates_env.query_ok,
                                       ~dates_env.cache_get_ok) :
                   g \in {get_trading_dates(dates_env, store, td)} })

\* list_dates_command(args)
list_dates_command(env, store, td) ==
    Value({ CommandTrace(0, g.store, FALSE, g.queries = 1 /\ ~env.query_ok,
                         ~env.cache_get_ok, g.ret) :
              g \in {get_trading_dates(env, store, td)} })

\* symbols_command(args): search_symbol("", date)
symbols_command(text, env, store, sr) ==
    Value({ IF ~parsed.ok
            THEN CommandTrace(1, store, TRUE, FALSE, FALSE, <<>>)
            ELSE search_and_print(<<>>, parsed.date, env, store, sr, FALSE, FALSE) :
              parsed \in {fromisoformat(text)} })

\* download_command(args); r is what download_and_parse did for the parsed
\* date
download_command_exit(parsed, r) ==
    IF ~parsed.ok THEN 1
    ELSE IF r.raised THEN 1
    ELSE IF r.result.status = "success" THEN 0
    ELSE 1

\* the outcomes of RedisClient.is_connected: ping answers, ping raises
\* redis.ConnectionError (False is returned), ping raises another error
\* (it leaves is_connected)
PingOutcomes == {"ok", "ConnectionError", "other"}
\* one round of the three is_connected calls
HealthRounds == [redis : PingOutcomes, influxdb : BOOLEAN, cassandra : BOOLEAN]

\* health_command(args): the first round of checks is printed, the second
\* decides the exit status; an exception of a check exits 1
health_command(first, second) ==
    IF first.redis = "other" THEN 1
    ELSE IF second.redis = "other" THEN 1
    ELSE IF second.redis = "ok" /\ second.influxdb /\ second.cassandra THEN 0
    ELSE 1

CliResult(command, c, pipeline_failed, unhealthy) ==
    [op |-> "cli", command |-> command, exit |-> c.exit,
     invalid_date |-> c.invalid_date, store_failed |-> c.store_failed,
     cache_failed |-> c.cache_failed, pipeline_failed |-> pipeline_failed,
     unhealthy |-> unhealthy, records |-> c.records]

\* cli search SYMBOL [--date DATE]
CliSearch(symbol, arg) ==
    /\ clock < MaxCliCalls
    /\ \E dates_env \in IF arg.given THEN {NoQueryEnv} ELSE QueryEnvs :
       \E env \in QueryEnvs :
       \E c \in {search_command(symbol, arg, dates_env, env, redis,
                                settlement_records, trading_dates)} :
          /\ redis' = c.store
          /\ last' = CliResult("search", c, FALSE, FALSE)
    /\ clock' = clock + 1
    /\ UNCHANGED <<files, settlement_records, trading_dates, influx,
                   parse_patch, tasks>>

\* cli list-dates
CliListDates ==
    /\ clock < MaxCliCalls
    /\ \E env \in QueryEnvs :
       \E c \in {list_dates_command(env, redis, trading_dates)} :
          /\ redis' = c.store
          /\ last' = CliResult("list-dates", c, FALSE, FALSE)
    /\ clock' = clock + 1
    /\ UNCHANGED <<files, settlement_records, trading_dates, influx,
                   parse_patch, tasks>>

\* cli symbols DATE
CliSymbols(text) ==
    /\ clock < MaxCliCalls
    /\ \E env \in QueryEnvs :
       \E c \in {symbols_command(text, env, redis, settlement_records)} :
          /\ redis' = c.store
          /\ last' = CliResult("symbols", c, FALSE, FALSE)
    /\ clock' = clock + 1
    /\ UNCHANGED <<files, settlement_records, trading_dates, influx,
                   parse_patch, tasks>>

\* cli health
CliHealth ==
    /\ clock < MaxCliCalls
    /\ \E first \in HealthRounds, second \in HealthRounds :
          last' = CliResult("health",
                            CommandTrace(health_command(first, second), redis,
                                         FALSE, FALSE, FALSE, <<>>),
                            FALSE,
                            \/ second.redis # "ok"
                            \/ ~second.influxdb
                            \/ ~second.cassandra)
    /\ clock' = clock + 1
    /\ UNCHANGED <<redis, files, settlement_records, trading_dates, influx,
                   parse_patch, tasks>>

\* cli download DATE
CliDownload(text) ==
    /\ clock < MaxCliCalls
    /\ \E parsed \in {fromisoformat(text)} :
         \/ /\ ~parsed.ok
            /\ last' = CliResult("download",
                                 CommandTrace(1, redis, TRUE, FALSE, FALSE, <<>>),
                                 FALSE, FALSE)
            /\ UNCHANGED <<redis, files, settlement_records, trading_dates, influx>>
         \/ /\ parsed.ok
            /\ \E de \in DownloadEnvs(parsed.date, redis) :
               \E dl \in {download_file(parsed.date, de, redis, files)} :
               \E read_ok \in ParseEnvs(dl, parse_patch) :
               \E pr \in {IF dl.ret = "path"
                          THEN call_parse_file(parse_patch, dl.fs[dl.path], read_ok)
                          ELSE [raised |-> FALSE, records |-> <<>>, log |-> ""]} :
               \E se \in StoreEnvs(pr.records) :
               \E r \in {download_and_parse(parsed.date, MakeEnv(de, read_ok, se),
                                            parse_patch, clock, redis, files,
                                            settlement_records, trading_dates,
                                            influx)} :
                  /\ redis' = r.store
                  /\ files' = r.fs
                  /\ settlement_records' = r.settlement_records
                  /\ trading_dates' = r.trading_dates
                  /\ influx' = r.influx
                  /\ last' = CliResult("download",
                                       CommandTrace(download_command_exit(parsed, r),
                                                    r.store, FALSE, FALSE, FALSE,
                                                    r.records),
                                       r.raised \/ r.result.status # "success",
                                       FALSE)
    /\ clock' = clock + 1
    /\ UNCHANGED <<parse_patch, tasks>>

\* the service before a command: the row store empty or holding the records
\* of an earlier run, the cache empty, _parse_file real or replaced by the
\* canned list of the unit tests
InitCli ==
    /\ redis = [k \in RedisKeys \cup SearchKeys |-> NoEntry]
    /\ \E l22 \in {<<>>, <<Rec1, Rec2>>} :
       \E a \in {IF l22 = <<>>
                 THEN [settlement_records |-> {}, trading_dates |-> {}]
                 ELSE insert_settlement_records(D22, l22, 0, 0, {}, {})} :
          /\ settlement_records = a.settlement_records
          /\ trading_dates = a.trading_dates
    /\ influx = {}
    /\ clock = 0
    /\ last = [op |-> "none"]
    /\ tasks = [p \in Tasks |-> IdleTask]
    /\ files = [p \in Paths |-> NoFile]
    /\ parse_patch \in {NoPatch, [on |-> TRUE, value |-> <<Rec1>>]}

NextCli ==
    \/ \E arg \in OptionalDateArgs : CliSearch(S_HTI, arg)
    \/ CliListDates
    \/ \E text \in DateArgs : CliSymbols(text)
    \/ CliHealth
    \/ \E text \in DateArgs : CliDownload(text)

SpecCli == InitCli /\ [][NextCli]_vars

(***************************************************************************)
(* The synchronous download endpoint GET /download/{trading_date}          *)
(* (app/main.py), over the pipeline as the unit tests run it.              *)
(***************************************************************************)
NoBody ==
    [trading_date |-> D22, status |-> "", message |-> Message("", D22, 0, ""),
     records_count |-> 0, download_timestamp |-> 0]

\* the endpoint answering 500 whenever the pipeline reports an error
download_settlement_data_sync_ErrorIs500(d, r) ==
    IF r.raised \/ r.result.status = "error"
    THEN [status_code |-> 500, detail |-> r.result.message, body |-> NoBody]
    ELSE [status_code |-> 200, detail |-> Message("", D22, 0, ""),
          body |-> [trading_date |-> d, status |-> r.result.status,
                    message |-> r.result.message,
                    records_count |-> r.result.records_count,
                    download_timestamp |-> r.result.download_timestamp]]

\* download_settlement_data_sync(trading_date); r is what the call of
\* download_and_parse did: [raised, result].  A returned result becomes the
\* DownloadResponse of a 200, a raised exception the HTTPException 500.
download_settlement_data_sync(d, r) ==
    IF r.raised
    THEN [status_code |-> 500, detail |-> r.result.message, body |-> NoBody]
    ELSE [status_code |-> 200, detail |-> Message("", D22, 0, ""),
          body |-> [trading_date |-> d, status |-> r.result.status,
                    message |-> r.result.message,
                    records_count |-> r.result.records_count,
                    download_timestamp |-> r.result.download_timestamp]]

\* a request GET /download/{d}
GetDownload(d) ==
    /\ clock < CallLimit
    /\ \E de \in DownloadEnvs(d, redis) :
       \E dl \in {download_file(d, de, redis, files)} :
       \E read_ok \in ParseEnvs(dl, parse_patch) :
       \E pr \in {IF dl.ret = "path"
                  THEN call_parse_file(parse_patch, dl.fs[dl.path], read_ok)
                  ELSE [raised |-> FALSE, records |-> <<>>, log |-> ""]} :
       \E se \in StoreEnvs(pr.records) :
       \E r \in {download_and_parse(d, MakeEnv(de, read_ok, se), parse_patch, clock,
                                    redis, files, settlement_records,
                                    trading_dates, influx)} :
       \E resp \in {download_settlement_data_sync(d, r)} :
          /\ redis' = r.store
          /\ files' = r.fs
          /\ settlement_records' = r.settlement_records
          /\ trading_dates' = r.trading_dates
          /\ influx' = r.influx
          /\ last' = [op |-> "GET /download", date |-> d,
                      raised |-> r.raised, result |-> r.result,
                      response |-> resp]
    /\ clock' = clock + 1
    /\ UNCHANGED <<parse_patch, tasks>>

NextApi ==
    \/ \E d \in Dates : GetDownload(d)
    \/ \E k \in RedisKeys : Expire(k)

SpecApi == InitPatched /\ [][NextApi]_vars

(***************************************************************************)
(* The time-series store on its own:                                       *)
(* InfluxDBClientWrapper.write_settlement_data applied to record lists.    *)
(***************************************************************************)
\* the call of series HTI2308 at the next strike
Rec4 ==
    [series |-> T_HTI2308, expiry |-> T_Expiry, strike |-> 18500 * FloatScale,
     call_put |-> T_Call, settlement_price |-> 987, volume |-> 10,
     open_interest |-> 5]

\* the record lists written
WrittenLists == SeqsUpTo({Rec1, Rec2, Rec3, Rec4}, 2)

\* a call of write_settlement_data(d, records)
WriteSettlementData(d, records) ==
    /\ clock < MaxClock
    /\ \E ok \in BOOLEAN :
       \E w \in {write_settlement_data(d, records, ok, influx)} :
          /\ influx' = w.influx
          /\ last' = [op |-> "write_settlement_data", date |-> d,
                      records |-> records, ret |-> w.ret]
    /\ clock' = clock + 1
    /\ UNCHANGED <<redis, files, settlement_records, trading_dates,
                   parse_patch, tasks>>

NextWrite == \E d \in Dates, records \in WrittenLists : WriteSettlementData(d, records)

SpecWrite == Init /\ [][NextWrite]_vars

(***************************************************************************)
(* Repeated runs of the pipeline on one raw document, with _parse_file     *)
(* replaced by a canned list as in the unit tests.                         *)
(***************************************************************************)
\* the collaborators of a run while the site serves the sample document
\* and the local file can be written
RerunEnvs(d, store) ==
    { e \in DownloadEnvs(d, store) :
        /\ e.file_write = "ok"
        /\ e.fetch.kind = "ok" => e.fetch.text = SampleDoc }

\* what a later run needs to know of the run before it
RunSummary(l) ==
    IF l.op = "download_and_parse"
    THEN [ran |-> TRUE, date |-> l.date, records |-> l.records,
          insert_calls |-> l.insert_calls]
    ELSE [ran |-> FALSE, date |-> D22, records |-> <<>>, insert_calls |-> <<>>]

\* a call of download_and_parse(d) that follows earlier calls; `before` is
\* the row store as the call found it and `previous` the call before it
Rerun(d) ==
    /\ clock < MaxClock
    /\ \E de \in RerunEnvs(d, redis) :
       \E dl \in {download_file(d, de, redis, files)} :
       \E read_ok \in ParseEnvs(dl, parse_patch) :
       \E pr \in {IF dl.ret = "path"
                  THEN call_parse_file(parse_patch, dl.fs[dl.path], read_ok)
                  ELSE [raised |-> FALSE, records |-> <<>>, log |-> ""]} :
       \E se \in StoreEnvs(pr.records) :
       \E r \in {download_and_parse(d, MakeEnv(de, read_ok, se), parse_patch, clock,
                                    redis, files, settlement_records,
                                    trading_dates, influx)} :
          /\ redis' = r.store
          /\ files' = r.fs
          /\ settlement_records' = r.settlement_records
          /\ trading_dates' = r.trading_dates
          /\ influx' = r.influx
          /\ last' = [op |-> "download_and_parse", date |-> d,
                      raised |-> r.raised, result |-> r.result,
                      records |-> r.records,
                      insert_calls |-> r.insert_calls,
                      before |-> [settlement_records |-> settlement_records,
                                  trading_dates |-> trading_dates],
                      previous |-> RunSummary(last)]
    /\ clock' = clock + 1
    /\ UNCHANGED <<parse_patch, tasks>>

InitRerun ==
    /\ InitStores
    /\ files = [p \in Paths |-> NoFile]
    /\ parse_patch \in { [on |-> TRUE, value |-> v] : v \in {<<Rec1>>, <<Rec1, Rec2>>} }

NextRerun ==
    \/ \E d \in Dates : Rerun(d)
    \/ \E k \in RedisKeys : Expire(k)

SpecRerun == InitRerun /\ [][NextRerun]_vars

(***************************************************************************)
(* The search endpoint POST /search (app/main.py) over a range of dates.   *)
(***************************************************************************)
D0830 == [year |-> 2023, month |-> 8, day |-> 30]
D0831 == [year |-> 2023, month |-> 8, day |-> 31]
D0901 == [year |-> 2023, month |-> 9, day |-> 1]
\* the dates of the requests: the end of a month and the start of the next
RangeDates == {D0830, D0831, D0901}

RangeKeys ==
    { K_cache \o search_cache_key(S_HTI, d) : d \in RangeDates }
    \cup {K_cache \o K_trading_dates}

\* the loop of lines 159-164 from current_date on.  acc is [records,
\* visited]: the results gathered and the dates searched so far.
\* current_date.replace(day=current_date.day + 1) raises ValueError on the
\* last day of a month, which the handler turns into the HTTPException 500.
RECURSIVE search_dates(_, _, _, _, _, _, _)
search_dates(symbol, current_date, end_date, env, store, sr, acc) ==
    IF ~(current_date = end_date \/ DateLess(current_date, end_date))
    THEN [status_code |-> 200, records |-> acc.records, visited |-> acc.visited,
          store |-> store]
    ELSE Value({
           Value({
             IF current_date.day + 1 > DaysInMonth(current_date.year, current_date.month)
             THEN [status_code |-> 500, records |-> <<>>, visited |-> next.visited,
                   store |-> r.store]
             ELSE search_dates(symbol, [current_date EXCEPT !.day = @ + 1], end_date,
                               env, r.store, sr, next)
             : next \in {[records |-> acc.records \o r.ret,
                          visited |-> Append(acc.visited,
                                             [date |-> current_date, ret |-> r.ret])]} })
           : r \in {search_symbol(symbol, current_date, env, store, sr)} })

NoRange == [given |-> FALSE, start_date |-> D0830, end_date |-> D0830]
\* the SearchRequest bodies: without dates, or with a start and an end date
RangeRequests ==
    {NoRange} \cup
    { [given |-> TRUE, start_date |-> a, end_date |-> b] : a \in RangeDates, b \in RangeDates }

\* search_symbol(request) of POST /search.  env is what the collaborators
\* do during the request, dates_env during the call of get_trading_dates.
post_search(symbol, request, dates_env, env, store, sr, td) ==
    IF request.given
    THEN search_dates(symbol, request.start_date, request.end_date, env, store, sr,
                      [records |-> <<>>, visited |-> <<>>])
    ELSE Value({
           IF g.ret = <<>>
           THEN [status_code |-> 200, records |-> <<>>, visited |-> <<>>,
                 store |-> g.store]
           ELSE Value({ [status_code |-> 200, records |-> r.ret,
                         visited |-> <<[date |-> latest, ret |-> r.ret]>>,
                         store |-> r.store] :
                          latest \in {fromisoformat(g.ret[1].trading_date).date},
                          r \in {search_symbol(symbol,
                                               fromisoformat(g.ret[1].trading_date).date,
                                               env, g.store, sr)} })
           : g \in {get_trading_dates(dates_env, store, td)} })

\* a request POST /search
PostSearch(request) ==
    /\ \E dates_env \in IF request.given THEN {NoQueryEnv} ELSE QueryEnvs :
       \E env \in QueryEnvs :
       \E c \in {post_search(S_HTI, request, dates_env, env, redis,
                             settlement_records, trading_dates)} :
          /\ redis' = c.store
          /\ last' = [op |-> "POST /search", request |-> request,
                      status_code |-> c.status_code, records |-> c.records,
                      visited |-> c.visited]
    /\ UNCHANGED <<files, settlement_records, trading_dates, influx, clock,
                   parse_patch, tasks>>

\* the row store holds the records of earlier runs for some of the dates
InitRange ==
    /\ redis = [k \in RangeKeys |-> NoEntry]
    /\ \E first \in {<<>>, <<Rec1, Rec2>>}, second \in {<<>>, <<Rec1>>},
          third \in {<<>>, <<Rec3, Rec1>>} :
       \E a \in {IF first = <<>>
                 THEN [settlement_records |-> {}, trading_dates |-> {}]
                 ELSE insert_settlement_records(D0830, first, 0, 0, {}, {})} :
       \E b \in {IF second = <<>> THEN a
                 ELSE insert_settlement_records(D0831, second, 0, 0,
                                                a.settlement_records,
                                                a.trading_dates)} :
       \E c \in {IF third = <<>> THEN b
                 ELSE insert_settlement_records(D0901, third, 0, 0,
                                                b.settlement_records,
                                                b.trading_dates)} :
          /\ settlement_records = c.settlement_records
          /\ trading_dates = c.trading_dates
    /\ influx = {}
    /\ clock = 0
    /\ last = [op |-> "none"]
    /\ tasks = [p \in Tasks |-> IdleTask]
    /\ files = [p \in Paths |-> NoFile]
    /\ parse_patch = NoPatch

NextRange ==
    \/ \E request \in RangeRequests : PostSearch(request)
    \/ \E k \in RangeKeys : Expire(k)

SpecRange == InitRange /\ [][NextRange]_vars

(***************************************************************************)
(* A run that finds the document of an earlier run in the cache.           *)
(***************************************************************************)

\* what a later call of _download_file needs to know of the run before it
FetchSummary(l) ==
    IF l.op = "download_and_parse"
    THEN [ran |-> TRUE, date |-> l.date, download |-> l.download,
          parse_calls |-> l.parse_calls, records |-> l.records,
          status |-> l.result.status, message |-> l.result.message,
          entry_after |-> l.entry_after]
    ELSE [ran |-> FALSE]

\* a call of download_and_parse(d) that may follow an earlier call;
\* `lookup_ok` tells whether its cache lookup reached the cache store,
\* `entry_before` and `entry_after` are the document cache entry of d as the
\* call found it and as it left it, `file_after` the local file as it left it
RunAgain(d) ==
    /\ clock < MaxClock
    /\ \E de \in DownloadEnvs(d, redis) :
       \E dl \in {download_file(d, de, redis, files)} :
       \E read_ok \in ParseEnvs(dl, parse_patch) :
       \E r \in {download_and_parse(d, MakeEnv(de, read_ok, StoreEnvNone),
                                    parse_patch, clock, redis, files,
                                    settlement_records, trading_dates, influx)} :
          /\ redis' = r.store
          /\ files' = r.fs
          /\ settlement_records' = r.settlement_records
          /\ trading_dates' = r.trading_dates
          /\ influx' = r.influx
          /\ last' = [op |-> "download_and_parse", date |-> d,
                      raised |-> r.raised, result |-> r.result,
                      download |-> r.download,
                      lookup_ok |-> de.cache_get_ok,
                      parse_calls |-> r.parse_calls,
                      records |-> r.records,
                      entry_before |-> redis[K_cache \o file_cache_key(d)],
                      entry_after |-> r.store[K_cache \o file_cache_key(d)],
                      file_after |-> r.fs[generate_filename(d)],
                      previous |-> FetchSummary(last)]
    /\ clock' = clock + 1
    /\ UNCHANGED <<parse_patch, tasks>>

\* the runs are repeated for one date, whose document is the one cached
RecacheDates == {D22}

NextRecache ==
    \/ \E d \in RecacheDates : RunAgain(d)
    \/ \E k \in RedisKeys : Expire(k)

SpecRecache == Init /\ [][NextRecache]_vars

(***************************************************************************)
(* Queries that follow pipeline runs.                                      *)
(***************************************************************************)

\* the number of pipeline runs the queries are interleaved with
MaxStoreRuns == 1

NoRun == [ran |-> FALSE, stored |-> FALSE, date |-> D22, records |-> <<>>]

\* the last call of download_and_parse before the state `l` of `last`
RunOf(l) == l.run

\* the runs between the queries find the site, the cache store and the
\* file system working; the row store, the time-series store and the
\* metadata write may fail
FreshEnvs(d, store) ==
    { e \in RerunEnvs(d, store) :
        /\ e.cache_get_ok
        /\ e.cache_set_ok
        /\ e.fetch.kind = "RequestException" => truthy(get_cache(store, file_cache_key(d), TRUE)) }

\* of the stores, the row store alone may fail during those runs
FreshStoreEnvs(records) ==
    { se \in StoreEnvs(records) : se.influx_ok /\ se.metadata_set_ok }

\* the symbols the queries after a run ask for
FreshSymbols == {S_HTI}

\* the keys of the query caches of those symbols
FreshKeys ==
    { K_cache \o search_cache_key(sym, d) : sym \in FreshSymbols, d \in Dates }
    \cup {K_cache \o K_trading_dates}

\* a call of download_and_parse(d) between queries; `run` tells the queries
\* that follow what it stored
StoreRun(d) ==
    /\ clock < MaxStoreRuns
    /\ \E de \in FreshEnvs(d, redis) :
       \E dl \in {download_file(d, de, redis, files)} :
       \E read_ok \in ParseEnvs(dl, parse_patch) :
       \E pr \in {IF dl.ret = "path"
                  THEN call_parse_file(parse_patch, dl.fs[dl.path], read_ok)
                  ELSE [raised |-> FALSE, records |-> <<>>, log |-> ""]} :
       \E se \in FreshStoreEnvs(pr.records) :
       \E r \in {download_and_parse(d, MakeEnv(de, read_ok, se), parse_patch, clock,
                                    redis, files, settlement_records,
                                    trading_dates, influx)} :
          /\ redis' = r.store
          /\ files' = r.fs
          /\ settlement_records' = r.settlement_records
          /\ trading_dates' = r.trading_dates
          /\ influx' = r.influx
          /\ last' = [op |-> "download_and_parse", date |-> d,
                      result |-> r.result,
                      run |-> [ran |-> TRUE,
                               stored |-> /\ r.result.status = "success"
                                          /\ r.insert_calls # <<>>
                                          /\ r.insert_calls[1].ret,
                               date |-> d, records |-> r.records]]
    /\ clock' = clock + 1
    /\ UNCHANGED <<parse_patch, tasks>>

\* a call of search_symbol(symbol, d) after the runs so far
SearchAfterRun(symbol, d) ==
    /\ \E env \in SearchEnvs(symbol, d, redis) :
       \E r \in {search_symbol(symbol, d, env, redis, settlement_records)} :
          /\ redis' = r.store
          /\ last' = [op |-> "search_symbol", symbol |-> symbol, date |-> d,
                      query_ok |-> env.query_ok,
                      entry |-> redis[K_cache \o search_cache_key(symbol, d)],
                      ret |-> r.ret, queries |-> r.queries, run |-> RunOf(last)]
    /\ UNCHANGED <<files, settlement_records, trading_dates, influx, clock,
                   parse_patch, tasks>>

\* a call of get_trading_dates() after the runs so far
DatesAfterRun ==
    /\ \E env \in QueryEnvs :
       \E r \in {get_trading_dates(env, redis, trading_dates)} :
          /\ redis' = r.store
          /\ last' = [op |-> "get_trading_dates",
                      query_ok |-> env.query_ok,
                      entry |-> redis[K_cache \o K_trading_dates],
                      ret |-> r.ret, queries |-> r.queries, run |-> RunOf(last)]
    /\ UNCHANGED <<files, settlement_records, trading_dates, influx, clock,
                   parse_patch, tasks>>

InitFresh ==
    /\ redis = [k \in RedisKeys \cup FreshKeys |-> NoEntry]
    /\ settlement_records = {}
    /\ trading_dates = {}
    /\ influx = {}
    /\ clock = 0
    /\ last = [op |-> "none", run |-> NoRun]
    /\ tasks = [p \in Tasks |-> IdleTask]
    /\ files = [p \in Paths |-> NoFile]
    /\ parse_patch \in { [on |-> TRUE, value |-> v] : v \in {<<Rec1>>, <<Rec1, Rec2>>} }

NextFresh ==
    \/ \E d \in Dates : StoreRun(d)
    \/ \E sym \in FreshSymbols, d \in Dates : SearchAfterRun(sym, d)
    \/ DatesAfterRun
    \/ \E k \in RedisKeys \cup FreshKeys : Expire(k)

SpecFresh == InitFresh /\ [][NextFresh]_vars

(***************************************************************************)
(* The row store on its own.                                               *)
(***************************************************************************)

\* the number of calls of insert_settlement_records
MaxInserts == 2

\* the record lists inserted
InsertedLists == SeqsUpTo({Rec1, Rec2, Rec4}, 2)

\* a call of insert_settlement_records(d, records); the execute number
\* fail_at raises (the records come first, the trading_dates row last), none
\* if fail_at = 0.  `before` is the row store as the call found it
InsertSettlementRecords(d, records) ==
    /\ clock < MaxInserts
    /\ \E fail_at \in 0..(Len(records) + 1) :
       \E c \in {insert_settlement_records(d, records, fail_at, clock,
                                           settlement_records, trading_dates)} :
          /\ settlement_records' = c.settlement_records
          /\ trading_dates' = c.trading_dates
          /\ last' = [op |-> "insert_settlement_records", date |-> d,
                      records |-> records, fail_at |-> fail_at, now |-> clock,
                      ret |-> c.ret,
                      before |-> [settlement_records |-> settlement_records,
                                  trading_dates |-> trading_dates]]
    /\ clock' = clock + 1
    /\ UNCHANGED <<redis, files, influx, parse_patch, tasks>>

NextInsert ==
    \E d \in Dates, records \in InsertedLists : InsertSettlementRecords(d, records)

SpecInsert == Init /\ [][NextInsert]_vars

(***************************************************************************)
(* Properties.                                                             *)
(***************************************************************************)
IsPipelineRun == last.op = "download_and_parse"
IsParseCall == last.op = "_parse_file" /\ last.read_ok /\ last.file.exists

\* the text has a line whose stripped content starts with "Series"
HasHeader(text) ==
    LET lines == splitlines(text)
    IN  \E i \in 1..Len(lines) : startswith(strip(lines[i]), S_Series)

\* the first such line is "Series Expiry Strike Call/Put Settlement Volume
\* Open Interest"
HasStandardHeader(text) ==
    LET lines == splitlines(text)
    IN  /\ HasHeader(text)
        /\ strip(lines[find_header(lines, 1)]) = HeaderText

\* the token lists of the data lines of the text
DataRows(text) ==
    LET lines == splitlines(text)
    IN  data_rows_of(SubSeq(lines, find_header(lines, 1) + 1, Len(lines)))

Coercible(t) ==
    /\ py_float(t[3]).ok /\ py_float(t[5]).ok /\ py_int(t[6]).ok /\ py_int(t[7]).ok

\* a data line of seven tokens whose numeric tokens are numeric
WellFormedRow(t) == Len(t) = 7 /\ Coercible(t)

\* the record that a well-formed data line stands for
ExpectedRecord(t) ==
    [series |-> t[1], expiry |-> t[2], strike |-> py_float(t[3]).val,
     call_put |-> t[4], settlement_price |-> py_float(t[5]).val,
     volume |-> py_int(t[6]).val, open_interest |-> py_int(t[7]).val]

\* the records of the well-formed data lines of the text, in order
ExpectedRecords(text) ==
    LET good == SelectSeq(DataRows(text), WellFormedRow)
    IN  [i \in 1..Len(good) |-> ExpectedRecord(good[i])]

\* C1: for a document with the standard header followed by N >= 1 data
\* lines, all of seven tokens with numeric strike, settlement, volume and
\* open interest, _parse_file returns exactly the N records of those lines,
\* strings passed through and numbers converted.
C1_ParsesEveryWellFormedRow ==
    (/\ IsParseCall
     /\ HasStandardHeader(last.file.content)
     /\ DataRows(last.file.content) # <<>>
     /\ \A i \in 1..Len(DataRows(last.file.content)) :
           WellFormedRow(DataRows(last.file.content)[i]))
    => /\ Len(last.records) = Len(DataRows(last.file.content))
       /\ last.records = ExpectedRecords(last.file.content)

\* C2: download_and_parse never raises; whatever its collaborators do, it
\* returns a summary with status success or error, a message, a record
\* count and the time of the call.
C2_NeverRaises ==
    IsPipelineRun =>
        /\ ~last.raised
        /\ last.result.status \in {"success", "error"}
        /\ last.result.message.text # ""
        /\ last.result.records_count \in Nat
        /\ last.result.download_timestamp = clock - 1

\* a run whose download step raised and that still returned a summary
C2_Witness ==
    /\ IsPipelineRun
    /\ last.download.ret = "raise"
    /\ last.result.status = "error"

\* C3: on a document without a line starting with "Series", _parse_file
\* returns the empty list without raising, and the pipeline run on such a
\* document returns status error with records_count 0.
C3_NoHeaderYieldsError ==
    /\ (IsParseCall /\ ~HasHeader(last.file.content))
          => (~last.raised /\ last.records = <<>>)
    /\ (/\ IsPipelineRun
        /\ last.parse_calls # <<>>
        /\ ~HasHeader(files[last.download.path].content))
          => /\ last.records = <<>>
             /\ last.result.status = "error"
             /\ last.result.records_count = 0

\* a pipeline run that parsed a non-empty document without header
C3_Witness ==
    /\ IsPipelineRun
    /\ last.parse_calls # <<>>
    /\ files[last.download.path].content # <<>>
    /\ ~HasHeader(files[last.download.path].content)
    /\ last.parse_log = "Could not find header line in file"

\* C4: under the standard header, a seven-token row with a token that does
\* not coerce is left out without raising and every well-formed row of the
\* same document is still returned.
C4_OnlyUncoercibleRowsDropped ==
    (/\ IsParseCall
     /\ HasStandardHeader(last.file.content)
     /\ \A i \in 1..Len(DataRows(last.file.content)) :
           Len(DataRows(last.file.content)[i]) = 7
     /\ \E i \in 1..Len(DataRows(last.file.content)) :
           ~Coercible(DataRows(last.file.content)[i]))
    => /\ ~last.raised
       /\ last.records = ExpectedRecords(last.file.content)

\* C5: under the standard header, a row whose token count is not the column
\* count is left out, the parse does not raise, and the rows of the same
\* document that have the right count and coerce are still returned.
C5_OnlyMiscountedRowsDropped ==
    (/\ IsParseCall
     /\ HasStandardHeader(last.file.content)
     /\ \E i \in 1..Len(DataRows(last.file.content)) :
           Len(DataRows(last.file.content)[i]) # 7)
    => /\ ~last.raised
       /\ last.records = ExpectedRecords(last.file.content)

\* the Fetch-or-Cache step of the last run failed: it returned None or raised
FetchStepFailed == IsPipelineRun /\ last.download.ret \in {"None", "raise"}

\* C6: when the Fetch-or-Cache step fails, download_and_parse returns status
\* error with records_count 0 and a message that names the download failure
\* (or carries the error the step raised) and is not the parse-failure
\* message; nothing is parsed and no storage collaborator is called.
C6_FetchFailureShortCircuits ==
    FetchStepFailed =>
        /\ last.result.status = "error"
        /\ last.result.records_count = 0
        /\ last.result.message.text # NoRecordsResult(last.date, 0).message.text
        /\ last.download.ret = "None" =>
              last.result.message = Message("Failed to download file for", last.date, 0, "")
        /\ last.download.ret = "raise" =>
              last.result.message =
                 Message("Error processing data:", last.date, 0, last.download.exc)
        /\ last.parse_calls = <<>>
        /\ last.insert_calls = <<>>
        /\ last.write_calls = <<>>
        /\ last.metadata_sets = <<>>

\* a run whose network fetch failed with a request error
C6_Witness ==
    /\ IsPipelineRun
    /\ last.download.ret = "None"
    /\ last.download.fetches = 1

\* the last run parsed a document that has a header and got no record
ZeroRowsRun ==
    /\ IsPipelineRun
    /\ last.parse_calls # <<>>
    /\ HasHeader(files[last.download.path].content)
    /\ last.records = <<>>

\* the last run parsed a document that has no header
NoHeaderRun ==
    /\ IsPipelineRun
    /\ last.parse_calls # <<>>
    /\ ~HasHeader(files[last.download.path].content)

\* C7 as stated: a run that parses to zero records returns a message that
\* differs from the message of a run, for the same date, that found no
\* header.
C7_DistinctMessages ==
    [][(NoHeaderRun /\ ZeroRowsRun' /\ last'.date = last.date)
          => last'.result.message # last.result.message]_vars

\* C7 as amended: a run that parses to zero records and a run that finds no
\* header both return status error, records_count 0 and the one message
\* "No valid records found for <date>".
C7_SameMessage ==
    (ZeroRowsRun \/ NoHeaderRun) =>
        /\ last.result.status = "error"
        /\ last.result.records_count = 0
        /\ last.result.message = Message("No valid records found for", last.date, 0, "")

\* a run on a document that has a header and only a malformed row
C7_Witness ==
    /\ ZeroRowsRun
    /\ DataRows(files[last.download.path].content) # <<>>
    /\ \A i \in 1..Len(DataRows(files[last.download.path].content)) :
          ~WellFormedRow(DataRows(files[last.download.path].content)[i])

\* every record of the list has its row in the row store
RowsStored(d, records) ==
    \A i \in 1..Len(records) :
        \E r \in settlement_records :
            RecordKey(r) = RecordKey(SettlementRow(d, records[i], 0))

\* every record of the list has its point in the time-series store
PointsStored(d, records) ==
    \A i \in 1..Len(records) :
        \E q \in influx : PointKey(q) = PointKey(SettlementPoint(d, records[i]))

\* C8: when at least one record is parsed, the row-store insert and the
\* time-series write are each called exactly once with the whole list,
\* whatever the other returns; what a successful write stored stays stored
\* when the other fails, and the run returns success with the record count.
C8_IndependentFanOut ==
    (IsPipelineRun /\ last.records # <<>>) =>
        /\ Len(last.insert_calls) = 1
        /\ last.insert_calls[1].date = last.date
        /\ last.insert_calls[1].records = last.records
        /\ Len(last.write_calls) = 1
        /\ last.write_calls[1].date = last.date
        /\ last.write_calls[1].records = last.records
        /\ last.insert_calls[1].ret => RowsStored(last.date, last.records)
        /\ last.write_calls[1].ret => PointsStored(last.date, last.records)
        /\ last.result.status = "success"
        /\ last.result.records_count = Len(last.records)

\* a run whose row-store insert failed and whose time-series write succeeded
C8_Witness ==
    /\ IsPipelineRun
    /\ last.records # <<>>
    /\ ~last.insert_calls[1].ret
    /\ last.write_calls[1].ret
    /\ PointsStored(last.date, last.records)

\* C9: the status is success exactly when the parser produced a record, the
\* count of a success is the number of parsed records, and the count of an
\* error is 0.
C9_StatusMatchesRecords ==
    IsPipelineRun =>
        /\ last.result.status = "success" <=> last.records # <<>>
        /\ last.result.status = "success" =>
              last.result.records_count = Len(last.records)
        /\ last.result.status = "error" => last.result.records_count = 0

\* a successful run with two records
C9_Witness ==
    /\ IsPipelineRun
    /\ last.result.status = "success"
    /\ last.result.records_count = 2

\* the cache lookup of the last run returned a non-empty document
CacheHit ==
    /\ IsPipelineRun
    /\ ~last.download.cached.none
    /\ last.download.cached.v.s # <<>>

\* C10 as stated: on a non-empty cache entry the step returns the path of a
\* file that holds the entry, with no network fetch and no cache write.
C10_CacheHitAlwaysSucceeds ==
    CacheHit =>
        /\ last.download.ret = "path"
        /\ files[last.download.path] =
              [exists |-> TRUE, content |-> last.download.cached.v.s]
        /\ last.download.fetches = 0
        /\ last.download.cache_sets = <<>>

\* C10 as amended: on a non-empty cache entry the step makes no network
\* fetch and no cache write; if the local file can be written it returns
\* the path of a file that holds the entry, and if open() or write() raises
\* the step raises that error.
C10_CacheHitSkipsFetch ==
    CacheHit =>
        /\ last.download.fetches = 0
        /\ last.download.cache_sets = <<>>
        /\ last.download.file_write = "ok" =>
              /\ last.download.ret = "path"
              /\ files[last.download.path] =
                    [exists |-> TRUE, content |-> last.download.cached.v.s]
        /\ last.download.file_write # "ok" =>
              /\ last.download.ret = "raise"
              /\ last.download.exc = "OSError"

\* a run served from the cache
C10_Witness ==
    /\ CacheHit
    /\ last.download.ret = "path"
    /\ last.download.fetches = 0

\* the last run missed the cache and its HTTP call failed: requests.get or
\* raise_for_status raised
FetchFailedRun ==
    /\ IsPipelineRun
    /\ ~last.download.hit
    /\ last.download.fetches = 1
    /\ last.download.fetch # "ok"

\* C11: on a cache miss, whenever the network fetch fails, whatever the
\* error the HTTP call raised, _download_file returns None instead of
\* raising and writes no cache entry for the date.
C11_FetchFailureReturnsNone ==
    FetchFailedRun =>
        /\ last.download.ret = "None"
        /\ last.download.cache_sets = <<>>

\* C12: under every interleaving of two download_and_parse invocations,
\* each invocation parses the complete document that its own
\* Fetch-or-Cache step obtained.
C12_ParsesOwnDocument ==
    \A p \in Tasks :
        tasks[p].pc = "done" => tasks[p].parsed = tasks[p].doc

\* the number of positions of seq that hold x
Count(seq, x) == Cardinality({ i \in 1..Len(seq) : seq[i] = x })

\* C13: the records that _parse_file returns come from the data lines in
\* increasing line order, and two identical well-formed lines yield two
\* records.
C13_OrderKeptNoDedup ==
    (IsParseCall /\ HasStandardHeader(last.file.content)) =>
        \E rows \in {DataRows(last.file.content)} :
            /\ \E f \in [1..Len(last.records) -> 1..Len(rows)] :
                  /\ \A a, b \in 1..Len(last.records) : a < b => f[a] < f[b]
                  /\ \A a \in 1..Len(last.records) :
                        /\ WellFormedRow(rows[f[a]])
                        /\ last.records[a] = ExpectedRecord(rows[f[a]])
            /\ \A i, j \in 1..Len(rows) :
                  (i < j /\ rows[i] = rows[j] /\ WellFormedRow(rows[i]))
                  => Count(last.records, ExpectedRecord(rows[i])) >= 2

\* the two-digit decimal number at positions i and i + 1 of the text
TwoDigitNumber(text, i) ==
    IF text[i] \in Digits /\ text[i + 1] \in Digits
    THEN 10 * DigitVal(text[i]) + DigitVal(text[i + 1])
    ELSE -1

\* the name is "sp", two digits of the day, two of the month, two of the
\* year, and ".dat"
IsFileNameOf(name, d) ==
    /\ Len(name) = 12
    /\ SubSeq(name, 1, 2) = <<"s", "p">>
    /\ TwoDigitNumber(name, 3) = d.day
    /\ TwoDigitNumber(name, 5) = d.month
    /\ TwoDigitNumber(name, 7) = d.year % 100
    /\ SubSeq(name, 9, 12) = <<".", "d", "a", "t">>

\* C14: the file name of a date is "sp" + zero-padded day, month and
\* two-digit year + ".dat" (2023-08-22 gives sp220823.dat), the URL is
\* base_url + "/" + that file name, and both depend on the date only.
C14_NameAndUrlOfDate ==
    /\ last.op = "_generate_filename" =>
          /\ IsFileNameOf(last.ret, last.date)
          /\ last.date = D22 =>
                last.ret = <<"s", "p", "2", "2", "0", "8", "2", "3", ".", "d", "a", "t">>
    /\ last.op = "_generate_url" =>
          /\ Len(last.ret) = Len(last.base_url) + 13
          /\ SubSeq(last.ret, 1, Len(last.base_url)) = last.base_url
          /\ last.ret[Len(last.base_url) + 1] = "/"
          /\ IsFileNameOf(SubSeq(last.ret, Len(last.base_url) + 2, Len(last.ret)),
                          last.date)

\* the file name of a date whose day and month have one digit
C14_Witness ==
    /\ last.op = "_generate_filename"
    /\ last.date = [year |-> 2000, month |-> 2, day |-> 9]
    /\ last.ret = <<"s", "p", "0", "9", "0", "2", "0", "0", ".", "d", "a", "t">>

\* the last run returned success
SuccessRun == IsPipelineRun /\ last.result.status = "success"

\* the settlement_metadata entry of the date of the last run, as
\* get_config reads it
SummaryEntry == get_config(redis, metadata_key(last.date), TRUE)

\* the entry holds the record count and the store flags of the last run
SummaryOfLastRun ==
    /\ ~SummaryEntry.none
    /\ SummaryEntry.v.t = "dict"
    /\ SummaryEntry.v.d.trading_date = isoformat(last.date)
    /\ SummaryEntry.v.d.total_records = Len(last.records)
    /\ SummaryEntry.v.d.cassandra_success = last.insert_calls[1].ret
    /\ SummaryEntry.v.d.influxdb_success = last.write_calls[1].ret

\* C15 as stated: after a run that returns success, the persisted summary
\* entry of the date holds the number of parsed records and the flags that
\* the row-store insert and the time-series write returned in that run.
C15_SummaryPersisted == SuccessRun => SummaryOfLastRun

\* C15 as amended: after a run that returns success, if the cache store
\* accepted the write of the summary, the entry of the date holds the
\* number of parsed records and the two flags of that run; if the write
\* failed, the run returns success all the same and the entry is not one
\* written by that run.
C15_SummaryPersistedIfWritten ==
    SuccessRun =>
        /\ Len(last.metadata_sets) = 1
        /\ last.metadata_sets[1].key = metadata_key(last.date)
        /\ last.metadata_sets[1].ret => SummaryOfLastRun
        /\ ~last.metadata_sets[1].ret =>
              \/ SummaryEntry.none
              \/ SummaryEntry.v.d.download_timestamp # last.result.download_timestamp

\* a success whose row-store insert failed and whose summary was written
C15_Witness ==
    /\ SuccessRun
    /\ last.metadata_sets[1].ret
    /\ ~last.insert_calls[1].ret
    /\ last.write_calls[1].ret
    /\ SummaryOfLastRun

IsSearch == last.op = "search_symbol"
\* the cache held a non-empty entry under the key of the last search
EntryHeld ==
    /\ last.entry.present
    /\ last.entry.value.t = "json_list"
    /\ last.entry.value.l # <<>>
\* the cache lookup of the last search returned a non-empty entry
LookupHit == ~last.cached.none /\ last.cached.v.l # <<>>
\* the last search made one store query, returned its result and attempted
\* one cache write of that result with an expiry of 1800 s
QueriedAndCached ==
    /\ Len(last.queries) = 1
    /\ last.queries[1].trading_date = last.date
    /\ last.queries[1].symbol = last.symbol
    /\ last.ret = last.queries[1].ret
    /\ Len(last.cache_sets) = 1
    /\ last.cache_sets[1].key = K_symbol_search \o last.symbol \o <<":">>
                                  \o isoformat(last.date)
    /\ last.cache_sets[1].value = last.ret
    /\ last.cache_sets[1].expire = 1800

IsGetDownload == last.op = "GET /download"

\* C17: GET /download/{date} answers 200 with the status, message and
\* records_count of the pipeline's result, whatever the result is, and
\* answers 5xx only when the pipeline call itself raised.
C17_ResultPassedThrough ==
    IsGetDownload =>
        /\ ~last.raised =>
              /\ last.response.status_code = 200
              /\ last.response.body.trading_date = last.date
              /\ last.response.body.status = last.result.status
              /\ last.response.body.message = last.result.message
              /\ last.response.body.records_count = last.result.records_count
        /\ last.response.status_code >= 500 => last.raised
        /\ last.response.status_code \in {200, 500}

\* a request whose pipeline run failed to download and that was answered
\* 200 with status error
C17_Witness ==
    /\ IsGetDownload
    /\ last.response.status_code = 200
    /\ last.response.body.status = "error"
    /\ last.response.body.message.text = "Failed to download file for"

IsCli == last.op = "cli"
\* the last command met a failure: an invalid date, a pipeline result
\* whose status is not success, a failed store or cache query, or an
\* unhealthy store
CommandFailed ==
    \/ last.invalid_date
    \/ last.pipeline_failed
    \/ last.store_failed
    \/ last.cache_failed
    \/ last.unhealthy

\* C18: a command that met a failure exits non-zero; a command exits zero
\* only when it met none.
C18_NonZeroExitOnFailure ==
    IsCli /\ CommandFailed => last.exit # 0

\* C19: after a successful write_settlement_data(D, records) the
\* time-series store holds, for every record, a point with the record's
\* date, series, expiry, strike and call/put: records that differ only in
\* strike are both retained.
C19_PointPerKey ==
    last.op = "write_settlement_data" /\ last.ret =>
        \A i \in 1..Len(last.records) :
            \E pt \in influx :
                /\ pt.time = last.date
                /\ pt.series = last.records[i].series
                /\ pt.expiry = last.records[i].expiry
                /\ pt.strike = last.records[i].strike
                /\ pt.call_put = last.records[i].call_put

\* the contents of the two tables with the timestamps left out
RowsIgnoringTime(sr) == { [r EXCEPT !.created_at = 0] : r \in sr }
DatesIgnoringTime(td) == { [r EXCEPT !.download_timestamp = 0] : r \in td }

\* no two rows have the same (trading_date, series, expiry, strike, call_put)
NoDuplicateRows ==
    \A r \in settlement_records, q \in settlement_records :
        /\ r.trading_date = q.trading_date
        /\ r.series = q.series
        /\ r.expiry = q.expiry
        /\ r.strike = q.strike
        /\ r.call_put = q.call_put
        => r = q

\* the last call was a second run: the call before it was a run for the
\* same date that parsed the same records
SecondRun ==
    /\ IsPipelineRun
    /\ last.previous.ran
    /\ last.previous.date = last.date
    /\ last.records # <<>>
    /\ last.previous.records = last.records

\* the second run left both tables, timestamps ignored, as it found them
TablesAsBefore ==
    /\ RowsIgnoringTime(settlement_records) =
          RowsIgnoringTime(last.before.settlement_records)
    /\ DatesIgnoringTime(trading_dates) =
          DatesIgnoringTime(last.before.trading_dates)
    /\ NoDuplicateRows

SummariesOfLastDate == { r \in trading_dates : r.trading_date = last.date }

\* C21: after every pipeline run for date D, whether it ends in success or
\* in error, exactly one trading_dates row for D exists, written by that
\* run, with that run's record count and status completed or error.
C21_SummaryAfterEveryRun ==
    IsPipelineRun =>
        /\ Cardinality(SummariesOfLastDate) = 1
        /\ \A r \in SummariesOfLastDate :
              /\ r.total_records = Len(last.records)
              /\ r.download_timestamp = clock - 1
              /\ r.status \in {"completed", "error"}

\* the calendar day after d
NextDay(d) ==
    IF d.day < DaysInMonth(d.year, d.month) THEN [d EXCEPT !.day = @ + 1]
    ELSE IF d.month < 12 THEN [year |-> d.year, month |-> d.month + 1, day |-> 1]
    ELSE [year |-> d.year + 1, month |-> 1, day |-> 1]

\* the calendar dates from a to b inclusive, ascending
RECURSIVE DatesFromTo(_, _)
DatesFromTo(a, b) ==
    IF a = b THEN <<a>>
    ELSE IF DateLess(a, b) THEN <<a>> \o DatesFromTo(NextDay(a), b)
    ELSE <<>>

RECURSIVE ConcatResults(_)
ConcatResults(visited) ==
    IF visited = <<>> THEN <<>>
    ELSE Head(visited).ret \o ConcatResults(Tail(visited))

\* C22: POST /search with start_date <= end_date answers 200 with the
\* concatenation, in ascending date order, of the search_symbol results of
\* every calendar date from start_date to end_date, each visited once.
C22_RangeSearchCoversEveryDate ==
    /\ last.op = "POST /search"
    /\ last.request.given
    /\ \/ last.request.start_date = last.request.end_date
       \/ DateLess(last.request.start_date, last.request.end_date)
    => /\ last.status_code = 200
       /\ [i \in 1..Len(last.visited) |-> last.visited[i].date] =
             DatesFromTo(last.request.start_date, last.request.end_date)
       /\ last.records = ConcatResults(last.visited)

\* the last run missed the cache and its HTTP call succeeded
FetchedRun ==
    /\ IsPipelineRun
    /\ ~last.download.hit
    /\ last.download.fetches = 1
    /\ last.download.fetch = "ok"
\* the entry of the document cache for the date of the last run, as the
\* run left it
DocumentEntry == last.document_entry
\* the local file of the date of the last run holds the fetched text
FileHoldsFetched ==
    /\ IsFileNameOf(last.download.path, last.date)
    /\ files[last.download.path] =
          [exists |-> TRUE, content |-> last.download.fetched]

\* the last run, if it fetched, left the fetched text in the cache under the
\* date's key with expiry 3600 s and in the local file, and got the path
CachedAndSaved ==
    FetchedRun =>
        /\ last.download.fetches = 1
        /\ DocumentEntry.present
        /\ DocumentEntry.ttl = 3600
        /\ loads(DocumentEntry.value) = PyStr(last.download.fetched)
        /\ FileHoldsFetched
        /\ last.download.ret = "path"

\* the last run, if it fetched, made one attempt to cache the fetched text;
\* the entry holds it if Redis accepted the write, the file holds it and
\* the path is returned if the file could be written, and the step raised
\* the I/O error otherwise
CachedIfAcceptedSavedIfWritable ==
    FetchedRun =>
        /\ last.download.fetches = 1
        /\ Len(last.download.cache_sets) = 1
        /\ last.download.cache_sets[1].key = K_settlement_file \o isoformat(last.date)
        /\ last.download.cache_sets[1].value = last.download.fetched
        /\ last.download.cache_sets[1].expire = 3600
        /\ last.download.cache_sets[1].ret =>
              /\ DocumentEntry.present
              /\ DocumentEntry.ttl = 3600
              /\ loads(DocumentEntry.value) = PyStr(last.download.fetched)
        /\ last.download.file_write = "ok" =>
              FileHoldsFetched /\ last.download.ret = "path"
        /\ last.download.file_write # "ok" =>
              last.download.ret = "raise" /\ last.download.exc = "OSError"

\* C23 as stated: a run whose lookup missed and whose fetch succeeded has
\* made one network fetch and ends with the cache holding the fetched text
\* under the date's key with expiry 3600 s, the local file holding the same
\* text, and the path returned.
C23_FetchedTextCachedAndSaved == CachedAndSaved

\* C23 as amended: such a run has made one network fetch and one attempt
\* to cache the fetched text under the date's key with expiry 3600 s; the
\* entry holds the text if Redis accepted the write; if the
\* local file can be written it holds the text and the path is returned,
\* otherwise the step raises the I/O error.
C23_FetchedTextCachedIfAccepted == CachedIfAcceptedSavedIfWritable

\* a fetch of the sample document that was cached and saved
C23_Witness ==
    /\ FetchedRun
    /\ last.download.fetched = SampleDoc
    /\ last.download.cache_sets[1].ret
    /\ DocumentEntry.present
    /\ FileHoldsFetched
    /\ last.download.ret = "path"

\* The results download_and_parse(d) can return in the current state, over
\* every outcome of the site, the file system and the stores.
PossibleResults(d) ==
    UNION { UNION { UNION { UNION { UNION {
        { download_and_parse(d, MakeEnv(de, read_ok, se), parse_patch, clock,
                             redis, files, settlement_records, trading_dates,
                             influx).result }
        : se \in StoreEnvs(pr.records) }
        : pr \in {IF dl.ret = "path"
                  THEN call_parse_file(parse_patch, dl.fs[dl.path], read_ok)
                  ELSE [raised |-> FALSE, records |-> <<>>, log |-> ""]} }
        : read_ok \in ParseEnvs(dl, parse_patch) }
        : dl \in {download_file(d, de, redis, files)} }
        : de \in DownloadEnvs(d, redis) }

\* C24: the unmocked pipeline can succeed: before any run, there is a raw
\* document on the site for which fetching and parsing it yields a non-empty
\* record list, so that download_and_parse returns status success.
C24_SuccessReachable ==
    clock = 0 =>
        \E d \in Dates : \E result \in PossibleResults(d) :
            result.status = "success" /\ result.records_count > 0

\* the run before the last one fetched the document of the same date from the
\* site and its parse produced no record
PreviousFetchedNoRecords ==
    /\ last.op = "download_and_parse"
    /\ "previous" \in DOMAIN last
    /\ last.previous.ran
    /\ last.previous.date = last.date
    /\ last.previous.download.fetch = "ok"
    /\ last.previous.download.ret = "path"
    /\ last.previous.parse_calls # <<>>
    /\ last.previous.records = <<>>

\* the document cache entry of the date was not removed between the two runs
NotExpiredSince == last.entry_before = last.previous.entry_after

\* the last run fetched nothing, parsed the text the run before it fetched
\* and returned the same error
ServedFromCache ==
    /\ last.download.fetches = 0
    /\ last.parse_calls = <<generate_filename(last.date)>>
    /\ last.file_after = [exists |-> TRUE,
                          content |-> last.previous.download.fetched]
    /\ last.result.status = "error"
    /\ last.result.status = last.previous.status
    /\ last.result.message = last.previous.message

\* C25 as stated: after a run whose fetch succeeded and whose parse produced
\* no record, a later run for the same date within the cache expiry fetches
\* nothing, parses the same text and returns the same error.
C25_LaterRunServedFromCache ==
    PreviousFetchedNoRecords /\ NotExpiredSince => ServedFromCache

\* C25: the same, provided the cache accepted the non-empty text of the first
\* run, the later run's cache lookup succeeds and the later run can write the
\* local file.
C25_LaterRunServedFromCacheIfStored ==
    /\ PreviousFetchedNoRecords
    /\ NotExpiredSince
    /\ last.previous.download.cache_sets[1].ret
    /\ last.previous.download.fetched # <<>>
    /\ last.lookup_ok
    /\ last.download.file_write = "ok"
    => ServedFromCache

C25_Witness ==
    /\ PreviousFetchedNoRecords
    /\ NotExpiredSince
    /\ last.previous.download.cache_sets[1].ret
    /\ last.previous.download.fetched = SampleDoc
    /\ last.lookup_ok
    /\ last.download.file_write = "ok"
    /\ ServedFromCache

\* the step is a call of download_and_parse that returns status error
ErrorRunStep ==
    /\ clock' # clock
    /\ last'.op = "download_and_parse"
    /\ ~last'.raised
    /\ last'.result.status = "error"

\* the step leaves the row store, the time-series store, the metadata
\* entries, the other dates' documents and the other dates' files alone
OnlyDocumentAndFileChange ==
    /\ settlement_records' = settlement_records
    /\ trading_dates' = trading_dates
    /\ influx' = influx
    /\ \A k \in RedisKeys \ {K_cache \o file_cache_key(last'.date)} :
          redis'[k] = redis[k]
    /\ \A p \in Paths \ {generate_filename(last'.date)} : files'[p] = files[p]
    /\ last'.insert_calls = <<>>
    /\ last'.write_calls = <<>>
    /\ last'.metadata_sets = <<>>

\* C26: a call of download_and_parse that returns status error wrote nothing
\* to the row store, nothing to the time-series store and no
\* settlement_metadata entry; it changed at most the document cache entry and
\* the local file of its date.
C26_ErrorRunWritesNoStore == [][ErrorRunStep => OnlyDocumentAndFileChange]_vars

C26_Witness ==
    /\ last.op = "download_and_parse"
    /\ ~last.raised
    /\ last.result.status = "error"
    /\ last.download.fetches = 1
    /\ redis[K_cache \o file_cache_key(last.date)].present
    /\ files[generate_filename(last.date)].exists
    /\ settlement_records = {}
    /\ trading_dates = {}
    /\ influx = {}

\* the settlement_records rows stored for date d
RowsOf(d) == { r \in settlement_records : r.trading_date = d }

\* C27: after any sequence of pipeline runs, every date that has a
\* trading_dates row has total_records equal to the number of
\* settlement_records rows stored for it, and every date with stored
\* settlement_records rows has a trading_dates row.
C27_SummaryCountsStoredRows ==
    \A d \in Dates :
        /\ \A t \in trading_dates :
              t.trading_date = d => t.total_records = Cardinality(RowsOf(d))
        /\ RowsOf(d) # {} => \E t \in trading_dates : t.trading_date = d

\* the fields of a stored record that the parser produced
Quote(rec) == [f \in DOMAIN rec \ {"created_at"} |-> rec[f]]

\* the last call is a query that follows a run which returned success for
\* its date with the row-store write succeeding
DatesQueryAfterStoredRun ==
    /\ last.op = "get_trading_dates"
    /\ last.run.stored

SearchAfterStoredRun ==
    /\ last.op = "search_symbol"
    /\ last.run.stored
    /\ last.date = last.run.date

\* the result of the last get_trading_dates includes the date of the run
DatesIncludeRun ==
    \E i \in DOMAIN last.ret : last.ret[i].trading_date = isoformat(last.run.date)

\* the result of the last search_symbol holds every record of the run whose
\* series starts with the symbol
SearchReturnsRun ==
    \A j \in DOMAIN last.run.records :
        startswith(last.run.records[j].series, last.symbol) =>
            \E i \in DOMAIN last.ret : Quote(last.ret[i]) = last.run.records[j]

\* C28 as stated: once download_and_parse has returned success for a date
\* with the row-store write succeeding, the next get_trading_dates result
\* includes the date and the next search_symbol for the date returns the
\* newly stored records.
C28_QueriesReflectStoredRun ==
    /\ DatesQueryAfterStoredRun => DatesIncludeRun
    /\ SearchAfterStoredRun => SearchReturnsRun

\* C28: the same for the queries that the row store answers; such a query
\* is not answered from a cache entry written before the run.
C28_AnsweredQueriesReflectStoredRun ==
    /\ DatesQueryAfterStoredRun /\ last.query_ok =>
          DatesIncludeRun /\ last.queries = 1
    /\ SearchAfterStoredRun /\ last.query_ok =>
          SearchReturnsRun /\ Len(last.queries) = 1

\* a search that found the entry of a search made before the run, and
\* returned the two records of the run
C28_Witness ==
    /\ SearchAfterStoredRun
    /\ last.query_ok
    /\ last.entry.present
    /\ Len(last.run.records) = 2
    /\ Len(last.ret) = 2
    /\ SearchReturnsRun

IsInsert == last.op = "insert_settlement_records"

\* the number of record inserts of the last call that succeeded
InsertedCount ==
    IF last.fail_at = 0 \/ last.fail_at > Len(last.records)
    THEN Len(last.records)
    ELSE last.fail_at - 1

\* the j-th record of the last call is stored, as that call wrote it or as
\* a later record of the same key of that call overwrote it
RecordStored(j) ==
    \E i \in j..InsertedCount :
        /\ SettlementRow(last.date, last.records[i], last.now) \in settlement_records
        /\ RecordKey(SettlementRow(last.date, last.records[i], last.now)) =
           RecordKey(SettlementRow(last.date, last.records[j], last.now))

\* no row the call found has gone: each is there or was overwritten
NoRowRemoved ==
    \A row \in last.before.settlement_records :
        \E kept \in settlement_records : RecordKey(kept) = RecordKey(row)

\* the trading_dates row the last call writes
SummaryRow ==
    [trading_date |-> last.date, total_records |-> Len(last.records),
     download_timestamp |-> last.now, status |-> "completed"]

\* C29: insert_settlement_records writes the trading_dates row only after
\* every record insert of the call has succeeded; if an insert fails
\* part-way, the call returns False, the records inserted before the failure
\* stay stored and the call writes no trading_dates row.
C29_SummaryAfterAllInserts ==
    IsInsert =>
        /\ last.ret = (last.fail_at = 0)
        /\ \A j \in 1..InsertedCount : RecordStored(j)
        /\ NoRowRemoved
        /\ last.fail_at # 0 => trading_dates = last.before.trading_dates
        /\ last.fail_at = 0 =>
              /\ InsertedCount = Len(last.records)
              /\ SummaryRow \in trading_dates
              /\ \A t \in trading_dates :
                    t.trading_date = last.date => t = SummaryRow

\* the second of two inserts failed: the first record is stored, the date
\* has no trading_dates row, and the call returned False
C29_Witness ==
    /\ IsInsert
    /\ Len(last.records) = 2
    /\ last.fail_at = 2
    /\ ~last.ret
    /\ SettlementRow(last.date, last.records[1], last.now) \in settlement_records
    /\ \A t \in trading_dates : t.trading_date # last.date

\* the last run fetched the document from the site although the cache store
\* failed on the lookup or on the write of the fetched text
FetchedDespiteCacheFailure ==
    /\ IsPipelineRun
    /\ "lookup_ok" \in DOMAIN last
    /\ last.download.fetch = "ok"
    /\ ~last.lookup_ok \/ ~last.download.cache_sets[1].ret

\* a failed lookup of the last run was treated as a miss
FailedLookupIsMiss ==
    (IsPipelineRun /\ "lookup_ok" \in DOMAIN last /\ ~last.lookup_ok) =>
        /\ ~last.download.hit
        /\ last.download.fetches = 1

\* the last call of _download_file returned the path of the local file, which
\* holds the fetched text
ReturnedFetchedFile ==
    /\ last.download.ret = "path"
    /\ last.download.path = generate_filename(last.date)
    /\ last.file_after = [exists |-> TRUE, content |-> last.download.fetched]

\* C30 as stated: a failed cache read is treated as a miss and a failed
\* cache write is ignored, so on a successful network fetch _download_file
\* returns the path of the local file, which holds the fetched text.
C30_CacheFailuresNeverFailFetch ==
    /\ FailedLookupIsMiss
    /\ FetchedDespiteCacheFailure => ReturnedFetchedFile

\* C30: the same when the local file can be written; when it cannot, the
\* step raises the I/O error, whatever the cache store did.
C30_CacheFailuresIgnoredIfFileWritable ==
    /\ FailedLookupIsMiss
    /\ FetchedDespiteCacheFailure =>
          /\ last.download.file_write = "ok" => ReturnedFetchedFile
          /\ last.download.file_write # "ok" =>
                /\ last.download.ret = "raise"
                /\ last.download.exc = "OSError"

\* the lookup failed on an entry that was there, the write of the fetched
\* text failed too, and the sample document was saved and its path returned
C30_Witness ==
    /\ FetchedDespiteCacheFailure
    /\ last.entry_before.present
    /\ ~last.lookup_ok
    /\ ~last.download.cache_sets[1].ret
    /\ last.download.fetched = SampleDoc
    /\ ReturnedFetchedFile

====
